---- MODULE Spec2Model ----
(***************************************************************************)
(* A model of the attribute-mapping wrappers of AttrDict:                  *)
(*   AttrDict     attrdict/__init__.py   (mutable, mirrored attributes,     *)
(*                                        default factory)                  *)
(*   Attr         attrdict/attr.py       (read-only)                        *)
(*   DefaultAttr  tests/test_attr.py     (subclass of Attr with a property) *)
(*   MutableAttr  attrdict/mutableattr.py                                   *)
(*   AttrDefault  attrdict/default.py                                       *)
(* One wrapper instance is the state; every handler is a pure operator     *)
(* from the instance's state to an outcome (status, returned value, new    *)
(* state, factory calls), and every action applies one handler.            *)
(***************************************************************************)
EXTENDS Integers, Sequences, FiniteSets, TLC

VARIABLES
    cls,              \* the concrete class of the wrapper instance
    mapping,          \* self._mapping: the backing mapping, key -> raw value
    attrs,            \* mirrored attributes in the instance __dict__ (AttrDict)
    recursive,        \* self._recursive (AttrDict of __init__.py)
    sequence_type,    \* self._sequence_type (Attr family)
    default_factory,  \* self._default_factory
    pass_key,         \* self._pass_key
    res               \* the last operation: its name, arguments and outcome

vars == <<cls, mapping, attrs, recursive, sequence_type, default_factory,
          pass_key, res>>

(***************************************************************************)
(* Bounds.                                                                 *)
(***************************************************************************)
\* The largest number of keys the backing mapping holds in the model.
MaxLen == 2

(***************************************************************************)
(* Keys.  A key is written as a TLA+ string; "3" stands for the integer 3, *)
(* the one key that is not a string.  KeyChars spells each key out so that *)
(* the identifier pattern is matched character by character.               *)
(***************************************************************************)
Keys == {"foo", "mapping", "_foo", "get", "a-b", "3"}

NonStringKeys == {"3"}

KeyChars ==
    [k \in Keys |->
        CASE k = "foo"     -> <<"f", "o", "o">>
          [] k = "mapping" -> <<"m", "a", "p", "p", "i", "n", "g">>
          [] k = "_foo"    -> <<"_", "f", "o", "o">>
          [] k = "get"     -> <<"g", "e", "t">>
          [] k = "a-b"     -> <<"a", "-", "b">>
          [] k = "3"       -> <<"3">>]

Letters ==
    {"a", "b", "c", "d", "e", "f", "g", "h", "i", "j", "k", "l", "m", "n",
     "o", "p", "q", "r", "s", "t", "u", "v", "w", "x", "y", "z",
     "A", "B", "C", "D", "E", "F", "G", "H", "I", "J", "K", "L", "M", "N",
     "O", "P", "Q", "R", "S", "T", "U", "V", "W", "X", "Y", "Z"}

Digits == {"0", "1", "2", "3", "4", "5", "6", "7", "8", "9"}

\* isinstance(name, str)
IsString(k) == k \notin NonStringKeys

\* re.match('^[A-Za-z][A-Za-z0-9_]*$', name)
MatchesIdentifier(k) ==
    LET cs == KeyChars[k] IN
    /\ Len(cs) >= 1
    /\ cs[1] \in Letters
    /\ \A i \in 2..Len(cs) : cs[i] \in Letters \cup Digits \cup {"_"}

(***************************************************************************)
(* Classes.  ClassMethods(c) are the names among Keys that the class c     *)
(* defines as plain methods (non-data descriptors: an instance attribute   *)
(* of the same name would shadow them), ClassProperties(c) those it        *)
(* defines as properties (data descriptors: they win over the instance).   *)
(***************************************************************************)
Classes == {"AttrDict", "Attr", "DefaultAttr", "MutableAttr", "AttrDefault"}

\* The classes whose reads are Attr's (attr.py).
AttrFamily == {"Attr", "DefaultAttr", "MutableAttr"}

ClassMethods(c) == {"get"}

ClassProperties(c) == IF c = "DefaultAttr" THEN {"mapping"} ELSE {}

\* hasattr(cls, name)
HasAttr(c, k) == k \in ClassMethods(c) \cup ClassProperties(c)

\* A mutant of _valid_name: the class's own names are not excluded.
ValidName_NoClassCheck(c, k) == IsString(k) /\ MatchesIdentifier(k)

\* _valid_name(cls, name)
ValidName(c, k) == IsString(k) /\ MatchesIdentifier(k) /\ ~HasAttr(c, k)

(***************************************************************************)
(* Values.  Raw values are ints, strings, dicts, lists and tuples; a       *)
(* wrapper is what _build makes of a mapping; a member is what dot access  *)
(* resolves to for a name the class defines.                               *)
(***************************************************************************)
None == [tag |-> "None"]

IntV(v) == [tag |-> "int", val |-> v]

StrV(s) == [tag |-> "str", val |-> s]

DictV(items) == [tag |-> "dict", items |-> items]

ListV(elems) == [tag |-> "list", elems |-> elems]

TupleV(elems) == [tag |-> "tuple", elems |-> elems]

BytesV(s) == [tag |-> "bytes", val |-> s]

Member(c, k) == [tag |-> "member", cls |-> c, name |-> k]

BoolV(b) == IF b THEN [tag |-> "True"] ELSE [tag |-> "False"]

\* The marker that stands for an argument that was not given.
Marker == [tag |-> "marker"]

\* The key as a value (a popitem result, a factory argument).
KeyValue(k) == IF IsString(k) THEN StrV(k) ELSE IntV(k)

EmptyMap == [k \in {} |-> None]

Int1 == IntV("1")

Dict1 == DictV("foo" :> Int1)

List1 == ListV(<<Dict1>>)

\* A mapping nested two levels deep.
Dict2 == DictV("foo" :> Dict1)

\* The values a caller stores.
Values == {Int1, Dict1, List1}

\* isinstance(v, Mapping): a plain mapping or a wrapper.
IsMapping(v) == v.tag \in {"dict", "wrapper"}

\* The pairs a mapping value yields when it is iterated and subscripted.
MappingItems(v) == IF v.tag = "wrapper" THEN v.mapping ELSE v.items

\* The result of a binary operation that the operand does not support.
NotImplemented == [tag |-> "NotImplemented"]

\* An object that is no mapping and defines __radd__ (and no __add__).
Reflector == [tag |-> "reflector"]

\* What Reflector.__radd__ returns.
Reflected == [tag |-> "reflected"]

\* m with key k bound to v (m[k] = v).
Put(m, k, v) == [x \in DOMAIN m \cup {k} |-> IF x = k THEN v ELSE m[x]]

\* m without key k (del m[k]).
Drop(m, k) == [x \in DOMAIN m \ {k} |-> m[x]]

(***************************************************************************)
(* The default factory.  "None" is no factory; "dict" is the callable dict *)
(* (called with no argument: a new empty dict); "args" is a callable that  *)
(* returns the tuple of the arguments it was called with, so that its      *)
(* result shows whether the key was passed.                                *)
(***************************************************************************)
Factories == {"None", "dict", "args"}

\* default_factory(*args): the value the factory returns.
FactoryCall(f, args) == IF f = "dict" THEN DictV(EmptyMap) ELSE TupleV(args)

(***************************************************************************)
(* AttrDict of attrdict/__init__.py.                                       *)
(***************************************************************************)
RECURSIVE AttrDict_build(_, _, _)

\* The attributes AttrDict.__init__ mirrors: setattr(self, key, value) for
\* every valid key of the mapping, which stores _build(value).
AttrDict_init_attrs(c, m, rec) ==
    [k \in {x \in DOMAIN m : ValidName(c, x)} |-> AttrDict_build(c, m[k], rec)]

\* cls(obj, recursive=recursive): a wrapper over the mapping obj, with no
\* default factory.
AttrDict_new(c, m, rec) ==
    [tag |-> "wrapper", cls |-> c, mapping |-> m,
     attrs |-> AttrDict_init_attrs(c, m, rec),
     config |-> [recursive |-> rec, default_factory |-> "None",
                 pass_key |-> FALSE]]

\* A mutant of AttrDict._build: a sequence is returned as it is.
AttrDict_build_KeepsSequences(c, obj, rec) ==
    IF IsMapping(obj) THEN AttrDict_new(c, MappingItems(obj), rec) ELSE obj

\* AttrDict._build(obj, recursive)
AttrDict_build(c, obj, rec) ==
    IF IsMapping(obj)
    THEN AttrDict_new(c, MappingItems(obj), rec)
    ELSE IF rec /\ obj.tag \in {"list", "tuple"}
    THEN [tag |-> obj.tag,
          elems |-> [i \in 1..Len(obj.elems) |->
                        AttrDict_build(c, obj.elems[i], TRUE)]]
    ELSE obj

(***************************************************************************)
(* Outcomes.  A handler returns or raises; either way it leaves the        *)
(* instance in a state.  calls lists the argument tuples the default       *)
(* factory was called with, in order.                                      *)
(***************************************************************************)
Returns(v, m, a, calls) ==
    [status |-> "ok", value |-> v, mapping |-> m, attrs |-> a, calls |-> calls]

Raises(e, m, a, calls) ==
    [status |-> e, value |-> None, mapping |-> m, attrs |-> a, calls |-> calls]

\* The state of the instance as the handlers read it.
Self ==
    [cls |-> cls, mapping |-> mapping, attrs |-> attrs,
     recursive |-> recursive, sequence_type |-> sequence_type,
     default_factory |-> default_factory, pass_key |-> pass_key]

\* self after a handler that left it with mapping m and attributes a.
With(self, m, a) == [self EXCEPT !.mapping = m, !.attrs = a]

\* self as an outcome o left it.
After(self, o) == With(self, o.mapping, o.attrs)

\* AttrDict.__missing__(key): the factory's value is stored in the mapping
\* (not through _set) and returned.
AttrDict_missing(self, k) ==
    LET args == IF self.pass_key THEN <<KeyValue(k)>> ELSE <<>>
        v    == FactoryCall(self.default_factory, args)
    IN  Returns(v, Put(self.mapping, k, v), self.attrs, <<args>>)

\* A mutant of AttrDict._set: the attribute of a key that already has one
\* is left as it is.
AttrDict_set_KeepsOldAttr(self, k, v) ==
    Returns(None, Put(self.mapping, k, v),
            IF ValidName(self.cls, k) /\ k \notin DOMAIN self.attrs
            THEN Put(self.attrs, k, AttrDict_build(self.cls, v, self.recursive))
            ELSE self.attrs,
            <<>>)

\* AttrDict._set(key, value)
AttrDict_set(self, k, v) ==
    Returns(None, Put(self.mapping, k, v),
            IF ValidName(self.cls, k)
            THEN Put(self.attrs, k, AttrDict_build(self.cls, v, self.recursive))
            ELSE self.attrs,
            <<>>)

\* AttrDict._delete(key): del self._mapping[key] raises KeyError for an
\* absent key; object.__delattr__ raises AttributeError for a valid name
\* that is no instance attribute, after the mapping has lost the key.
AttrDict_delete(self, k) ==
    IF k \notin DOMAIN self.mapping
    THEN Raises("KeyError", self.mapping, self.attrs, <<>>)
    ELSE IF ~ValidName(self.cls, k)
    THEN Returns(None, Drop(self.mapping, k), self.attrs, <<>>)
    ELSE IF k \in DOMAIN self.attrs
    THEN Returns(None, Drop(self.mapping, k), Drop(self.attrs, k), <<>>)
    ELSE Raises("AttributeError", Drop(self.mapping, k), self.attrs, <<>>)

\* AttrDict.__getattr__(key): reached when the interpreter's lookup fails.
AttrDict_getattr(self, k) ==
    IF self.default_factory = "None"
    THEN Raises("AttributeError", self.mapping, self.attrs, <<>>)
    ELSE AttrDict_missing(self, k)

\* AttrDict.__call__(key)
AttrDict_call(self, k) ==
    IF k \notin DOMAIN self.mapping
    THEN IF self.default_factory # "None"
         THEN LET o == AttrDict_missing(self, k) IN
              Returns(AttrDict_build(self.cls, o.mapping[k], self.recursive),
                      o.mapping, o.attrs, o.calls)
         ELSE Raises("AttributeError", self.mapping, self.attrs, <<>>)
    ELSE Returns(AttrDict_build(self.cls, self.mapping[k], self.recursive),
                 self.mapping, self.attrs, <<>>)

\* AttrDict.__setattr__(key, value)
AttrDict_setattr(self, k, v) ==
    IF ~ValidName(self.cls, k)
    THEN Raises("TypeError", self.mapping, self.attrs, <<>>)
    ELSE AttrDict_set(self, k, v)

\* A mutant of AttrDict.__delattr__: the name is not checked.
AttrDict_delattr_NoValidCheck(self, k) ==
    IF k \notin DOMAIN self.mapping
    THEN Raises("TypeError", self.mapping, self.attrs, <<>>)
    ELSE AttrDict_delete(self, k)

\* AttrDict.__delattr__(key)
AttrDict_delattr(self, k) ==
    IF ~ValidName(self.cls, k) \/ k \notin DOMAIN self.mapping
    THEN Raises("TypeError", self.mapping, self.attrs, <<>>)
    ELSE AttrDict_delete(self, k)

\* AttrDict.__setitem__(key, value)
AttrDict_setitem(self, k, v) == AttrDict_set(self, k, v)

\* AttrDict.__getitem__(key): self[key] = self.__missing__(key) for an absent
\* key when a factory is set, then self._mapping[key].
AttrDict_getitem(self, k) ==
    IF k \notin DOMAIN self.mapping /\ self.default_factory # "None"
    THEN LET o1 == AttrDict_missing(self, k)
             o2 == AttrDict_setitem(After(self, o1), k, o1.value)
         IN  Returns(o2.mapping[k], o2.mapping, o2.attrs, o1.calls)
    ELSE IF k \in DOMAIN self.mapping
    THEN Returns(self.mapping[k], self.mapping, self.attrs, <<>>)
    ELSE Raises("KeyError", self.mapping, self.attrs, <<>>)

\* AttrDict.__delitem__(key)
AttrDict_delitem(self, k) == AttrDict_delete(self, k)

\* AttrDict.get(key, default): self._mapping.get(key, default)
AttrDict_get(self, k, d) ==
    Returns(IF k \in DOMAIN self.mapping THEN self.mapping[k] ELSE d,
            self.mapping, self.attrs, <<>>)

\* AttrDict.__contains__(key): key in self._mapping
AttrDict_contains(self, k) ==
    Returns(BoolV(k \in DOMAIN self.mapping), self.mapping, self.attrs, <<>>)

(***************************************************************************)
(* The methods AttrDict inherits from MutableMapping, which are written in *)
(* terms of __getitem__, __setitem__ and __delitem__.                      *)
(***************************************************************************)
\* MutableMapping.pop(key, default=marker): try self[key]; on KeyError return
\* the default or raise; else del self[key].
AttrDict_pop(self, k, d) ==
    LET o1 == AttrDict_getitem(self, k) IN
    IF o1.status = "KeyError"
    THEN IF d = Marker THEN o1 ELSE Returns(d, o1.mapping, o1.attrs, o1.calls)
    ELSE LET o2 == AttrDict_delitem(After(self, o1), k) IN
         IF o2.status = "ok"
         THEN Returns(o1.value, o2.mapping, o2.attrs, o1.calls)
         ELSE Raises(o2.status, o2.mapping, o2.attrs, o1.calls)

\* MutableMapping.popitem(): key = next(iter(self)), KeyError when empty;
\* value = self[key]; del self[key].  k is the key the iterator yields.
AttrDict_popitem(self, k) ==
    IF DOMAIN self.mapping = {}
    THEN Raises("KeyError", self.mapping, self.attrs, <<>>)
    ELSE LET o1 == AttrDict_getitem(self, k)
             o2 == AttrDict_delitem(After(self, o1), k)
         IN  IF o2.status = "ok"
             THEN Returns(TupleV(<<KeyValue(k), o1.value>>),
                          o2.mapping, o2.attrs, o1.calls)
             ELSE Raises(o2.status, o2.mapping, o2.attrs, o1.calls)

RECURSIVE AttrDict_clear(_, _)

\* MutableMapping.clear(): popitem() until it raises KeyError; any other
\* error ends the loop and is raised.  order is the order in which the
\* iterator yields the keys.
AttrDict_clear(self, order) ==
    IF order = <<>>
    THEN Returns(None, self.mapping, self.attrs, <<>>)
    ELSE LET o == AttrDict_popitem(self, Head(order)) IN
         IF o.status = "ok"
         THEN AttrDict_clear(After(self, o), Tail(order))
         ELSE Raises(o.status, o.mapping, o.attrs, <<>>)

RECURSIVE AttrDict_update(_, _)

\* MutableMapping.update(other): self[key] = other[key] for key in other.
AttrDict_update(self, other) ==
    IF DOMAIN other = {}
    THEN Returns(None, self.mapping, self.attrs, <<>>)
    ELSE LET k == CHOOSE x \in DOMAIN other : TRUE
             o == AttrDict_setitem(self, k, other[k])
         IN  AttrDict_update(After(self, o), Drop(other, k))

\* MutableMapping.setdefault(key, default): try self[key]; on KeyError
\* self[key] = default and return default.
AttrDict_setdefault(self, k, d) ==
    LET o1 == AttrDict_getitem(self, k) IN
    IF o1.status = "KeyError"
    THEN LET o2 == AttrDict_setitem(After(self, o1), k, d) IN
         Returns(d, o2.mapping, o2.attrs, o1.calls)
    ELSE o1

(***************************************************************************)
(* Attr of attrdict/attr.py, the read-only wrapper.                        *)
(***************************************************************************)
SequenceTypes == {"tuple", "list", "None"}

RECURSIVE Attr_build(_, _, _)

\* constructor(obj, sequence_type=sequence_type): Attr.__init__ keeps the
\* mapping and the sequence type, and mirrors no attribute.
Attr_new(c, m, st) ==
    [tag |-> "wrapper", cls |-> c, mapping |-> m, attrs |-> EmptyMap,
     config |-> [sequence_type |-> st]]

\* Attr._build(obj, sequence_type)
Attr_build(c, obj, st) ==
    IF obj.tag = "dict"
    THEN Attr_new(c, obj.items, st)
    ELSE IF obj.tag \in {"list", "tuple"} /\ st # "None"
    THEN [tag |-> st,
          elems |-> [i \in 1..Len(obj.elems) |->
                        Attr_build(c, obj.elems[i], st)]]
    ELSE obj

\* A mutant of Attr.__getitem__: an absent key reads as None.
Attr_getitem_NoKeyError(self, k) ==
    Returns(IF k \in DOMAIN self.mapping THEN self.mapping[k] ELSE None,
            self.mapping, self.attrs, <<>>)

\* Attr.__getitem__(key): self._mapping[key]
Attr_getitem(self, k) ==
    IF k \in DOMAIN self.mapping
    THEN Returns(self.mapping[k], self.mapping, self.attrs, <<>>)
    ELSE Raises("KeyError", self.mapping, self.attrs, <<>>)

\* Attr.__call__(key)
Attr_call(self, k) ==
    IF k \notin DOMAIN self.mapping
    THEN Raises("AttributeError", self.mapping, self.attrs, <<>>)
    ELSE Returns(Attr_build(self.cls, self.mapping[k], self.sequence_type),
                 self.mapping, self.attrs, <<>>)

\* Attr.__getattr__(key): reached when the interpreter's lookup fails.
Attr_getattr(self, k) ==
    IF k \in DOMAIN self.mapping /\ ValidName(self.cls, k)
    THEN Returns(Attr_build(self.cls, self.mapping[k], self.sequence_type),
                 self.mapping, self.attrs, <<>>)
    ELSE Raises("AttributeError", self.mapping, self.attrs, <<>>)

\* A mutant of Attr.__setattr__: the pair is stored in the mapping.
Attr_setattr_Stores(self, k, v) ==
    Returns(None, Put(self.mapping, k, v), self.attrs, <<>>)

\* Attr.__setattr__(key, value), force=False: "Can not add new attribute"
Attr_setattr(self, k, v) ==
    Raises("TypeError", self.mapping, self.attrs, <<>>)

\* Attr.__delattr__(key): "object does not support attribute deletion"
Attr_delattr(self, k) ==
    Raises("TypeError", self.mapping, self.attrs, <<>>)

\* self[key] = value on Attr, a Mapping with no __setitem__: the interpreter
\* raises TypeError.
Attr_setitem(self, k, v) ==
    Raises("TypeError", self.mapping, self.attrs, <<>>)

\* del self[key] on Attr, a Mapping with no __delitem__: the interpreter
\* raises TypeError.
Attr_delitem(self, k) ==
    Raises("TypeError", self.mapping, self.attrs, <<>>)

\* Mapping.get(key, default), inherited by Attr: try self[key], on KeyError
\* the default.
Attr_get(self, k, d) ==
    LET o == Attr_getitem(self, k) IN
    IF o.status = "KeyError" THEN Returns(d, o.mapping, o.attrs, o.calls) ELSE o

\* Mapping.__contains__(key), inherited by Attr: try self[key], on KeyError
\* False, else True.
Attr_contains(self, k) ==
    LET o == Attr_getitem(self, k) IN
    Returns(BoolV(o.status # "KeyError"), o.mapping, o.attrs, o.calls)

(***************************************************************************)
(* MutableAttr of attrdict/mutableattr.py.  Its reads are Attr's.          *)
(***************************************************************************)
\* self._set(key, value): no class of MutableAttr's hierarchy defines _set,
\* so the lookup ends in Attr.__getattr__('_set'), which raises
\* AttributeError ('_set' is no valid name, in the mapping or not).
MutableAttr_set(self, k, v) ==
    Raises("AttributeError", self.mapping, self.attrs, <<>>)

\* MutableAttr.__setattr__(key, value), force=False
MutableAttr_setattr(self, k, v) ==
    IF ~ValidName(self.cls, k)
    THEN Raises("TypeError", self.mapping, self.attrs, <<>>)
    ELSE MutableAttr_set(self, k, v)

\* MutableAttr.__setitem__(key, value)
MutableAttr_setitem(self, k, v) == MutableAttr_set(self, k, v)

\* MutableAttr.__getitem__(key)
MutableAttr_getitem(self, k) ==
    IF k \in DOMAIN self.mapping
    THEN Returns(self.mapping[k], self.mapping, self.attrs, <<>>)
    ELSE Raises("KeyError", self.mapping, self.attrs, <<>>)

\* MutableAttr._delete(key): del self._mapping[key], then for a valid name
\* super().__delattr__(key, True), which is Attr.__delattr__ and raises
\* TypeError whatever force is.
MutableAttr_delete(self, k) ==
    IF k \notin DOMAIN self.mapping
    THEN Raises("KeyError", self.mapping, self.attrs, <<>>)
    ELSE IF ValidName(self.cls, k)
    THEN LET o == Attr_delattr(With(self, Drop(self.mapping, k), self.attrs), k)
         IN  Raises(o.status, o.mapping, o.attrs, <<>>)
    ELSE Returns(None, Drop(self.mapping, k), self.attrs, <<>>)

\* MutableAttr.__delattr__(key)
MutableAttr_delattr(self, k) ==
    IF ~ValidName(self.cls, k) \/ k \notin DOMAIN self.mapping
    THEN Raises("TypeError", self.mapping, self.attrs, <<>>)
    ELSE MutableAttr_delete(self, k)

\* MutableAttr.__delitem__(key)
MutableAttr_delitem(self, k) == MutableAttr_delete(self, k)

(***************************************************************************)
(* AttrDefault of attrdict/default.py.  Its base class is MutableAttr of   *)
(* attrdict/mixins.py, from which it takes _build and _valid_name; get and *)
(* __contains__ are those of Mapping, written in terms of __getitem__.     *)
(***************************************************************************)
RECURSIVE Mixins_build(_, _)

\* _constructor(mapping, configuration): a wrapper of the same class with
\* the same sequence type, default factory and pass_key.
AttrDefault_constructor(self, m) ==
    [tag |-> "wrapper", cls |-> self.cls, mapping |-> m, attrs |-> EmptyMap,
     config |-> [sequence_type |-> self.sequence_type,
                 default_factory |-> self.default_factory,
                 pass_key |-> self.pass_key]]

\* self._build(obj): the build rule with the instance's configuration.
Mixins_build(self, obj) ==
    IF obj.tag = "dict"
    THEN AttrDefault_constructor(self, obj.items)
    ELSE IF obj.tag \in {"list", "tuple"} /\ self.sequence_type # "None"
    THEN [tag |-> self.sequence_type,
          elems |-> [i \in 1..Len(obj.elems) |->
                        Mixins_build(self, obj.elems[i])]]
    ELSE obj

\* AttrDefault.__missing__(key)
AttrDefault_missing(self, k) ==
    LET args == IF self.pass_key THEN <<KeyValue(k)>> ELSE <<>>
        v    == FactoryCall(self.default_factory, args)
    IN  Returns(v, Put(self.mapping, k, v), self.attrs, <<args>>)

\* AttrDefault.__getitem__(key)
AttrDefault_getitem(self, k) ==
    IF k \in DOMAIN self.mapping
    THEN Returns(self.mapping[k], self.mapping, self.attrs, <<>>)
    ELSE IF self.default_factory # "None"
    THEN AttrDefault_missing(self, k)
    ELSE Raises("KeyError", self.mapping, self.attrs, <<>>)

\* AttrDefault.__setitem__(key, value)
AttrDefault_setitem(self, k, v) ==
    Returns(None, Put(self.mapping, k, v), self.attrs, <<>>)

\* AttrDefault.__delitem__(key)
AttrDefault_delitem(self, k) ==
    IF k \in DOMAIN self.mapping
    THEN Returns(None, Drop(self.mapping, k), self.attrs, <<>>)
    ELSE Raises("KeyError", self.mapping, self.attrs, <<>>)

\* Mapping.__contains__(key), inherited by AttrDefault: try self[key], on
\* KeyError False, else True.
AttrDefault_contains(self, k) ==
    LET o == AttrDefault_getitem(self, k) IN
    Returns(BoolV(o.status # "KeyError"), o.mapping, o.attrs, o.calls)

\* Mapping.get(key, default), inherited by AttrDefault: try self[key], on
\* KeyError the default.
AttrDefault_get(self, k, d) ==
    LET o == AttrDefault_getitem(self, k) IN
    IF o.status = "KeyError" THEN Returns(d, o.mapping, o.attrs, o.calls) ELSE o

\* AttrDefault.__getattr__(key): reached when the interpreter's lookup fails.
AttrDefault_getattr(self, k) ==
    IF ValidName(self.cls, k)
    THEN LET c  == AttrDefault_contains(self, k)
             s1 == After(self, c)
         IN  IF c.value = BoolV(TRUE)
             THEN Returns(Mixins_build(s1, s1.mapping[k]),
                          s1.mapping, s1.attrs, c.calls)
             ELSE IF self.default_factory # "None"
             THEN LET o == AttrDefault_missing(s1, k) IN
                  Returns(Mixins_build(After(s1, o), o.value),
                          o.mapping, o.attrs, c.calls \o o.calls)
             ELSE Raises("AttributeError", s1.mapping, s1.attrs, c.calls)
    ELSE Raises("AttributeError", self.mapping, self.attrs, <<>>)

(***************************************************************************)
(* values() and items().  order is the order in which the backing mapping  *)
(* yields its keys.                                                        *)
(***************************************************************************)
\* AttrDict.values(): self._mapping.values()
AttrDict_values(self, order) ==
    Returns(ListV([i \in 1..Len(order) |-> self.mapping[order[i]]]),
            self.mapping, self.attrs, <<>>)

\* AttrDict.items(): self._mapping.items()
AttrDict_items(self, order) ==
    Returns(ListV([i \in 1..Len(order) |->
                      TupleV(<<KeyValue(order[i]), self.mapping[order[i]]>>)]),
            self.mapping, self.attrs, <<>>)

\* Mapping.values(), inherited by Attr: self[key] for key in self.
Attr_values(self, order) ==
    Returns(ListV([i \in 1..Len(order) |-> Attr_getitem(self, order[i]).value]),
            self.mapping, self.attrs, <<>>)

\* Mapping.items(), inherited by Attr: (key, self[key]) for key in self.
Attr_items(self, order) ==
    Returns(ListV([i \in 1..Len(order) |->
                      TupleV(<<KeyValue(order[i]),
                               Attr_getitem(self, order[i]).value>>)]),
            self.mapping, self.attrs, <<>>)

\* Mapping.values(), inherited by AttrDefault: self[key] for key in self.
AttrDefault_values(self, order) ==
    Returns(ListV([i \in 1..Len(order) |->
                      AttrDefault_getitem(self, order[i]).value]),
            self.mapping, self.attrs, <<>>)

\* Mapping.items(), inherited by AttrDefault: (key, self[key]) for key in
\* self.
AttrDefault_items(self, order) ==
    Returns(ListV([i \in 1..Len(order) |->
                      TupleV(<<KeyValue(order[i]),
                               AttrDefault_getitem(self, order[i]).value>>)]),
            self.mapping, self.attrs, <<>>)

(***************************************************************************)
(* merge and addition.                                                     *)
(***************************************************************************)
RECURSIVE AttrDict_merge(_, _, _)

\* A mutant of merge: a key of both sides keeps left's value.
AttrDict_merge_LeftWins(l, r, rec) ==
    AttrDict_new("AttrDict",
        [k \in DOMAIN l \cup DOMAIN r |-> IF k \in DOMAIN l THEN l[k] ELSE r[k]],
        rec)

\* merge() that recurses only where the left value is a plain dict: the
\* AttrDict an earlier merge built is then replaced, not merged into.
AttrDict_merge_DictOnly(l, r, rec) ==
    AttrDict_new("AttrDict",
        [k \in DOMAIN l \cup DOMAIN r |->
            IF k \notin DOMAIN r THEN l[k]
            ELSE IF k \notin DOMAIN l THEN r[k]
            ELSE IF l[k].tag = "dict" /\ IsMapping(r[k])
            THEN AttrDict_merge(MappingItems(l[k]), MappingItems(r[k]), rec)
            ELSE r[k]],
        rec)

\* merge(left, right, recursive) of attrdict/__init__.py, on the pairs that
\* left and right yield: a new AttrDict(recursive=recursive) in which every
\* key of either side is set, by merged[key] = value.
AttrDict_merge(l, r, rec) ==
    AttrDict_new("AttrDict",
        [k \in DOMAIN l \cup DOMAIN r |->
            IF k \notin DOMAIN r THEN l[k]
            ELSE IF k \notin DOMAIN l THEN r[k]
            ELSE IF IsMapping(l[k]) /\ IsMapping(r[k])
            THEN AttrDict_merge(MappingItems(l[k]), MappingItems(r[k]), rec)
            ELSE r[k]],
        rec)

RECURSIVE AttrDict_read(_, _)

\* A mutant of merge's reads: the operand is also asked for the key 'foo'.
AttrDict_read_Probing(self, ks) ==
    LET o == AttrDict_getitem(self, "foo") IN
    [items |-> [k \in ks |-> self.mapping[k]], self |-> After(self, o),
     calls |-> o.calls]

\* set(self) and self[key] for each key, as merge reads a wrapper operand:
\* the pairs read, the state the reads leave the operand in, and the
\* factory calls they made.
AttrDict_read(self, ks) ==
    IF ks = {}
    THEN [items |-> EmptyMap, self |-> self, calls |-> <<>>]
    ELSE LET k    == CHOOSE x \in ks : TRUE
             o    == AttrDict_getitem(self, k)
             rest == AttrDict_read(After(self, o), ks \ {k})
         IN  [items |-> Put(rest.items, k, o.value), self |-> rest.self,
              calls |-> o.calls \o rest.calls]

\* not hasattr(other, '_recursive') or other._recursive
OtherRecursive(other) ==
    IF other.tag = "wrapper" /\ "recursive" \in DOMAIN other.config
    THEN other.config.recursive
    ELSE TRUE

\* A mutant of AttrDict.__add__: the sum holds other's pairs only.
AttrDict_add_OnlyOther(self, other) ==
    IF ~IsMapping(other)
    THEN Returns(NotImplemented, self.mapping, self.attrs, <<>>)
    ELSE Returns(AttrDict_new("AttrDict", MappingItems(other), self.recursive),
                 self.mapping, self.attrs, <<>>)

\* AttrDict.__add__(other)
AttrDict_add(self, other) ==
    IF ~IsMapping(other)
    THEN Returns(NotImplemented, self.mapping, self.attrs, <<>>)
    ELSE LET rd == AttrDict_read(self, DOMAIN self.mapping) IN
         Returns(AttrDict_merge(rd.items, MappingItems(other),
                                self.recursive /\ OtherRecursive(other)),
                 rd.self.mapping, rd.self.attrs, rd.calls)

\* A mutant of __radd__: no isinstance check, a non-mapping counts as empty.
AttrDict_radd_NoCheck(self, other) ==
    LET rd == AttrDict_read(self, DOMAIN self.mapping) IN
    Returns(AttrDict_merge(IF IsMapping(other) THEN MappingItems(other) ELSE EmptyMap,
                           rd.items, self.recursive),
            rd.self.mapping, rd.self.attrs, rd.calls)

\* AttrDict.__radd__(other)
AttrDict_radd(self, other) ==
    IF ~IsMapping(other)
    THEN Returns(NotImplemented, self.mapping, self.attrs, <<>>)
    ELSE LET rd == AttrDict_read(self, DOMAIN self.mapping) IN
         Returns(AttrDict_merge(MappingItems(other), rd.items, self.recursive),
                 rd.self.mapping, rd.self.attrs, rd.calls)

RECURSIVE Merge_merge(_, _)

\* merge(left, right) of attrdict/merge.py, on the pairs that left and right
\* yield: a new plain mapping.
Merge_merge(l, r) ==
    DictV([k \in DOMAIN l \cup DOMAIN r |->
              IF k \notin DOMAIN r THEN l[k]
              ELSE IF k \notin DOMAIN l THEN r[k]
              ELSE IF IsMapping(l[k]) /\ IsMapping(r[k])
              THEN Merge_merge(MappingItems(l[k]), MappingItems(r[k]))
              ELSE r[k]])

\* The sequence type of the sum: tuple, unless other has self's sequence
\* type (or none of its own).
Attr_sum_sequence_type(self, other) ==
    LET other_sequence_type ==
            IF other.tag = "wrapper" /\ "sequence_type" \in DOMAIN other.config
            THEN other.config.sequence_type
            ELSE self.sequence_type
    IN  IF other_sequence_type = self.sequence_type
        THEN self.sequence_type
        ELSE "tuple"

\* Attr.__add__(other)
Attr_add(self, other) ==
    IF ~IsMapping(other)
    THEN Returns(NotImplemented, self.mapping, self.attrs, <<>>)
    ELSE Returns(Attr_new("Attr",
                          Merge_merge(self.mapping, MappingItems(other)).items,
                          Attr_sum_sequence_type(self, other)),
                 self.mapping, self.attrs, <<>>)

\* Attr.__radd__(other)
Attr_radd(self, other) ==
    IF ~IsMapping(other)
    THEN Returns(NotImplemented, self.mapping, self.attrs, <<>>)
    ELSE Returns(Attr_new("Attr",
                          Merge_merge(MappingItems(other), self.mapping).items,
                          Attr_sum_sequence_type(self, other)),
                 self.mapping, self.attrs, <<>>)

(***************************************************************************)
(* The interpreter's part of attribute syntax, and the dispatch of every   *)
(* operation to the handler of the instance's class.                       *)
(***************************************************************************)
\* The class's __getattr__.
Class_getattr(self, k) ==
    CASE self.cls = "AttrDict"    -> AttrDict_getattr(self, k)
      [] self.cls \in AttrFamily  -> Attr_getattr(self, k)
      [] self.cls = "AttrDefault" -> AttrDefault_getattr(self, k)

\* self.k / getattr(self, k): a name that is no string is a TypeError; a
\* property of the class wins; then the instance's attribute; then a method
\* of the class; then the class's __getattr__.
DotAccess(self, k) ==
    IF ~IsString(k)
    THEN Raises("TypeError", self.mapping, self.attrs, <<>>)
    ELSE IF k \in ClassProperties(self.cls)
    THEN Returns(Member(self.cls, k), self.mapping, self.attrs, <<>>)
    ELSE IF k \in DOMAIN self.attrs
    THEN Returns(self.attrs[k], self.mapping, self.attrs, <<>>)
    ELSE IF k \in ClassMethods(self.cls)
    THEN Returns(Member(self.cls, k), self.mapping, self.attrs, <<>>)
    ELSE Class_getattr(self, k)

\* self.k = v / setattr(self, k, v): a name that is no string is a
\* TypeError; else the class's __setattr__.
DotAssign(self, k, v) ==
    IF ~IsString(k)
    THEN Raises("TypeError", self.mapping, self.attrs, <<>>)
    ELSE CASE self.cls = "AttrDict"           -> AttrDict_setattr(self, k, v)
           [] self.cls \in {"Attr", "DefaultAttr"} -> Attr_setattr(self, k, v)
           [] self.cls = "MutableAttr"        -> MutableAttr_setattr(self, k, v)

\* del self.k / delattr(self, k): a name that is no string is a TypeError;
\* else the class's __delattr__.
DotDelete(self, k) ==
    IF ~IsString(k)
    THEN Raises("TypeError", self.mapping, self.attrs, <<>>)
    ELSE CASE self.cls = "AttrDict"           -> AttrDict_delattr(self, k)
           [] self.cls \in {"Attr", "DefaultAttr"} -> Attr_delattr(self, k)
           [] self.cls = "MutableAttr"        -> MutableAttr_delattr(self, k)

\* self[k]
ItemAccess(self, k) ==
    CASE self.cls = "AttrDict"               -> AttrDict_getitem(self, k)
      [] self.cls \in {"Attr", "DefaultAttr"} -> Attr_getitem(self, k)
      [] self.cls = "MutableAttr"            -> MutableAttr_getitem(self, k)
      [] self.cls = "AttrDefault"            -> AttrDefault_getitem(self, k)

\* self[k] = v
ItemAssign(self, k, v) ==
    CASE self.cls = "AttrDict"               -> AttrDict_setitem(self, k, v)
      [] self.cls \in {"Attr", "DefaultAttr"} -> Attr_setitem(self, k, v)
      [] self.cls = "MutableAttr"            -> MutableAttr_setitem(self, k, v)
      [] self.cls = "AttrDefault"            -> AttrDefault_setitem(self, k, v)

\* del self[k]
ItemDelete(self, k) ==
    CASE self.cls = "AttrDict"               -> AttrDict_delitem(self, k)
      [] self.cls \in {"Attr", "DefaultAttr"} -> Attr_delitem(self, k)
      [] self.cls = "MutableAttr"            -> MutableAttr_delitem(self, k)
      [] self.cls = "AttrDefault"            -> AttrDefault_delitem(self, k)

\* self(k)
CallAccess(self, k) ==
    CASE self.cls = "AttrDict"   -> AttrDict_call(self, k)
      [] self.cls \in AttrFamily -> Attr_call(self, k)

\* self.get(k, d)
GetAccess(self, k, d) ==
    CASE self.cls = "AttrDict"    -> AttrDict_get(self, k, d)
      [] self.cls \in AttrFamily  -> Attr_get(self, k, d)
      [] self.cls = "AttrDefault" -> AttrDefault_get(self, k, d)

\* k in self
Containment(self, k) ==
    CASE self.cls = "AttrDict"    -> AttrDict_contains(self, k)
      [] self.cls \in AttrFamily  -> Attr_contains(self, k)
      [] self.cls = "AttrDefault" -> AttrDefault_contains(self, k)

\* self.values()
ValuesOf(self, order) ==
    CASE self.cls = "AttrDict"    -> AttrDict_values(self, order)
      [] self.cls \in AttrFamily  -> Attr_values(self, order)
      [] self.cls = "AttrDefault" -> AttrDefault_values(self, order)

\* self.items()
ItemsOf(self, order) ==
    CASE self.cls = "AttrDict"    -> AttrDict_items(self, order)
      [] self.cls \in AttrFamily  -> Attr_items(self, order)
      [] self.cls = "AttrDefault" -> AttrDefault_items(self, order)

\* The class's __add__.
Class_add(self, other) ==
    CASE self.cls = "AttrDict"   -> AttrDict_add(self, other)
      [] self.cls \in AttrFamily -> Attr_add(self, other)

\* The class's __radd__.
Class_radd(self, other) ==
    CASE self.cls = "AttrDict"   -> AttrDict_radd(self, other)
      [] self.cls \in AttrFamily -> Attr_radd(self, other)

\* self + other: self.__add__(other); when that is NotImplemented, other's
\* __radd__ if it has one, else TypeError.
Plus(self, other) ==
    LET o == Class_add(self, other) IN
    IF o.value # NotImplemented THEN o
    ELSE IF other = Reflector
    THEN Returns(Reflected, o.mapping, o.attrs, o.calls)
    ELSE Raises("TypeError", o.mapping, o.attrs, o.calls)

\* other + self, for an other that is no wrapper: other has no __add__ that
\* accepts a wrapper, so self.__radd__(other) is tried; when that is
\* NotImplemented, TypeError.
ReflectedPlus(self, other) ==
    LET o == Class_radd(self, other) IN
    IF o.value # NotImplemented THEN o
    ELSE Raises("TypeError", o.mapping, o.attrs, o.calls)

\* A wrapper that a read returned, as the handlers read it.
AsSelf(w) ==
    [cls |-> w.cls, mapping |-> w.mapping, attrs |-> w.attrs,
     recursive |-> IF "recursive" \in DOMAIN w.config
                   THEN w.config.recursive ELSE TRUE,
     sequence_type |-> IF "sequence_type" \in DOMAIN w.config
                       THEN w.config.sequence_type ELSE "None",
     default_factory |-> IF "default_factory" \in DOMAIN w.config
                         THEN w.config.default_factory ELSE "None",
     pass_key |-> IF "pass_key" \in DOMAIN w.config
                  THEN w.config.pass_key ELSE FALSE]

(***************************************************************************)
(* The state machine: an instance is constructed over a mapping, then any  *)
(* operation of its class may be applied to it, in any order.              *)
(***************************************************************************)
\* The keys the model uses with an instance of class c: "mapping" is a key
\* where the class defines that name.
KeysOf(c) ==
    IF c = "DefaultAttr" THEN {"foo", "mapping", "get", "_foo"}
    ELSE Keys \ {"mapping"}

\* The mappings over the keys K with at most n keys.
Mappings(K, n) ==
    UNION {[D -> Values] : D \in {X \in SUBSET K : Cardinality(X) <= n}}

\* The orders in which an iterator may yield the keys of a mapping.
Orders(S) ==
    {s \in [1..Cardinality(S) -> S] :
        \A i, j \in 1..Cardinality(S) : i # j => s[i] # s[j]}

\* The defaults a caller passes to get, pop and setdefault.
GetDefaults == {None, IntV("9")}

PopDefaults == {Marker, IntV("9")}

SetDefaults == {None, Dict1}

\* The mappings a caller passes to update.
UpdateArgs == {EmptyMap, ("foo" :> Dict1) @@ ("get" :> Int1), "_foo" :> List1}

\* The classes that have each operation in the sources.
HasAttrAssign == {"AttrDict", "Attr", "DefaultAttr", "MutableAttr"}

HasCall == {"AttrDict", "Attr", "DefaultAttr", "MutableAttr"}

\* The (default_factory, pass_key) pairs of an instance with a factory
\* option: dict takes no key.
FactoryConfigs ==
    {<<"None", FALSE>>, <<"dict", FALSE>>, <<"args", FALSE>>, <<"args", TRUE>>}

NoResult ==
    [op |-> "init", key |-> "", arg |-> None, had |-> FALSE,
     status |-> "ok", value |-> None, calls |-> <<>>]

\* AttrDict(mapping, recursive, default_factory, pass_key) of __init__.py.
\* The model pairs a factory with recursive=True only.
InitAttrDict ==
    /\ cls = "AttrDict"
    /\ mapping \in Mappings(KeysOf(cls), MaxLen)
    /\ recursive \in BOOLEAN
    /\ \E fc \in FactoryConfigs : default_factory = fc[1] /\ pass_key = fc[2]
    /\ ~recursive => default_factory = "None"
    /\ sequence_type = "None"
    /\ attrs = AttrDict_init_attrs(cls, mapping, recursive)

\* Attr(items, sequence_type), and its subclasses
InitAttr ==
    /\ cls \in AttrFamily
    /\ mapping \in Mappings(KeysOf(cls), MaxLen)
    /\ sequence_type \in (IF cls = "Attr" THEN SequenceTypes ELSE {"tuple"})
    /\ recursive = TRUE
    /\ default_factory = "None"
    /\ pass_key = FALSE
    /\ attrs = EmptyMap

\* AttrDefault(default_factory, items, sequence_type, pass_key).  The model
\* pairs a factory with sequence_type=tuple only.
InitAttrDefault ==
    /\ cls = "AttrDefault"
    /\ mapping \in Mappings(KeysOf(cls), MaxLen)
    /\ sequence_type \in {"tuple", "None"}
    /\ recursive = TRUE
    /\ \E fc \in FactoryConfigs : default_factory = fc[1] /\ pass_key = fc[2]
    /\ sequence_type = "None" => default_factory = "None"
    /\ attrs = EmptyMap

Init ==
    /\ InitAttrDict \/ InitAttr \/ InitAttrDefault
    /\ res = NoResult

\* A call: the instance takes the state the handler left, and the operation
\* (with whether its key was stored when it began) and its outcome are
\* recorded until the caller has taken them (Return).
Apply(op, k, arg, o) ==
    /\ res = NoResult
    /\ Cardinality(DOMAIN o.mapping) <= MaxLen
    /\ mapping' = o.mapping
    /\ attrs' = o.attrs
    /\ res' = [op |-> op, key |-> k, arg |-> arg,
               had |-> k \in DOMAIN mapping, status |-> o.status,
               value |-> o.value, calls |-> o.calls]
    /\ UNCHANGED <<cls, recursive, sequence_type, default_factory, pass_key>>

GetItem == \E k \in KeysOf(cls) : Apply("getitem", k, None, ItemAccess(Self, k))

SetItem ==
    \E k \in KeysOf(cls), v \in Values : Apply("setitem", k, v, ItemAssign(Self, k, v))

DelItem == \E k \in KeysOf(cls) : Apply("delitem", k, None, ItemDelete(Self, k))

GetAttr == \E k \in KeysOf(cls) : Apply("getattr", k, None, DotAccess(Self, k))

SetAttr ==
    /\ cls \in HasAttrAssign
    /\ \E k \in KeysOf(cls), v \in Values :
          Apply("setattr", k, v, DotAssign(Self, k, v))

DelAttr ==
    /\ cls \in HasAttrAssign
    /\ \E k \in KeysOf(cls) : Apply("delattr", k, None, DotDelete(Self, k))

Call ==
    /\ cls \in HasCall
    /\ \E k \in KeysOf(cls) : Apply("call", k, None, CallAccess(Self, k))

Get ==
    \E k \in KeysOf(cls), d \in GetDefaults : Apply("get", k, d, GetAccess(Self, k, d))

Contains == \E k \in KeysOf(cls) : Apply("contains", k, None, Containment(Self, k))

Pop ==
    /\ cls = "AttrDict"
    /\ \E k \in KeysOf(cls), d \in PopDefaults :
          Apply("pop", k, d, AttrDict_pop(Self, k, d))

PopItem ==
    /\ cls = "AttrDict"
    /\ IF DOMAIN mapping = {}
       THEN Apply("popitem", "", None, AttrDict_popitem(Self, ""))
       ELSE \E k \in DOMAIN mapping :
               Apply("popitem", k, None, AttrDict_popitem(Self, k))

Clear ==
    /\ cls = "AttrDict"
    /\ \E order \in Orders(DOMAIN mapping) :
          Apply("clear", "", None, AttrDict_clear(Self, order))

Update ==
    /\ cls = "AttrDict"
    /\ \E other \in UpdateArgs :
          Apply("update", "", DictV(other), AttrDict_update(Self, other))

SetDefault ==
    /\ cls = "AttrDict"
    /\ \E k \in KeysOf(cls), d \in SetDefaults :
          Apply("setdefault", k, d, AttrDict_setdefault(Self, k, d))

\* The holder of the mapping the instance was constructed over stores a
\* pair in it: the instance uses that mapping itself, not a copy, and none
\* of its handlers runs.
ExternalSet ==
    \E k \in KeysOf(cls), v \in Values :
        Apply("external_set", k, v, Returns(None, Put(mapping, k, v), attrs, <<>>))

\* The value a nested mapping is given under NestedKey from outside.
Int2 == IntV("2")

NestedKey == "foo"

\* The mapping stored at key k with NestedKey bound to Int2 in it.
NestedPut(m, k) == Put(m, k, DictV(Put(m[k].items, NestedKey, Int2)))

\* The holder of a raw nested mapping (the value item access returned for
\* key k) stores a pair in it.  The mapping stored at k is that same object,
\* and so is the backing mapping of a wrapper that was mirrored for k; the
\* attributes mirrored in that wrapper are not touched.
NestedSet ==
    \E k \in DOMAIN mapping :
        /\ mapping[k].tag = "dict"
        /\ Apply("nested_set", k, Int2,
                 Returns(None, NestedPut(mapping, k),
                         IF k \in DOMAIN attrs /\ attrs[k].tag = "wrapper"
                         THEN [attrs EXCEPT ![k].mapping =
                                  Put(attrs[k].mapping, NestedKey, Int2)]
                         ELSE attrs,
                         <<>>))

ValuesView ==
    \E order \in Orders(DOMAIN mapping) :
        Apply("values", "", None, ValuesOf(Self, order))

ItemsView ==
    \E order \in Orders(DOMAIN mapping) :
        Apply("items", "", None, ItemsOf(Self, order))

Int9 == IntV("9")

\* left = {'a': {'x': 1}} and right = {'a': {'y': 2, 'x': 9}}, with the keys
\* of the model: a and x are 'foo', y is 'get'.
MergeLeft == "foo" :> Dict1

MergeRight == "foo" :> DictV(("get" :> Int2) @@ ("foo" :> Int9))

\* The mappings that are merged and added: the empty one, the two above, one
\* whose value under 'foo' is no mapping, one that shares no key with them,
\* and one nested two levels deep.
MergeArgs ==
    {EmptyMap, MergeLeft, MergeRight,
     ("foo" :> Int1) @@ ("_foo" :> List1),
     ("get" :> Dict1) @@ ("3" :> Int2),
     "foo" :> DictV("foo" :> DictV("get" :> Int9))}

\* The classes that define __add__ and __radd__.
HasAdd == {"AttrDict"} \cup AttrFamily

\* m as a wrapper of the instance's own class.
WrapperOver(self, m) ==
    IF self.cls = "AttrDict"
    THEN AttrDict_new(self.cls, m, TRUE)
    ELSE Attr_new(self.cls, m, "tuple")

\* The operands that are no mappings: an int, a list, and an object with a
\* reflected addition.
NonMappings == {Int1, ListV(<<Int1>>), Reflector}

\* self + other
Add ==
    /\ cls \in HasAdd
    /\ \E other \in {DictV(m) : m \in MergeArgs}
                    \cup {WrapperOver(Self, m) : m \in MergeArgs}
                    \cup NonMappings :
          Apply("add", "", other, Plus(Self, other))

\* other + self, for an other that is no wrapper
RAdd ==
    /\ cls \in HasAdd
    /\ \E other \in {DictV(m) : m \in MergeArgs} \cup NonMappings :
          Apply("radd", "", other, ReflectedPlus(Self, other))

\* merge(self, other) and merge(other, self): the function of the module
\* the class lives in, with the instance as one operand and a plain mapping
\* as the other.  side tells on which side the instance is.
MergeWith(self, other, side) ==
    IF self.cls = "AttrDict"
    THEN LET rd == AttrDict_read(self, DOMAIN self.mapping) IN
         Returns(IF side = "left"
                 THEN AttrDict_merge(rd.items, other, TRUE)
                 ELSE AttrDict_merge(other, rd.items, TRUE),
                 rd.self.mapping, rd.self.attrs, rd.calls)
    ELSE Returns(IF side = "left"
                 THEN Merge_merge(self.mapping, other)
                 ELSE Merge_merge(other, self.mapping),
                 self.mapping, self.attrs, <<>>)

MergeCall ==
    /\ cls \in {"AttrDict", "Attr"}
    /\ \E other \in MergeArgs, side \in {"left", "right"} :
          Apply("merge_" \o side, "", DictV(other), MergeWith(Self, other, side))

\* The caller takes the outcome of the last call; the instance stays as it is.
\* The build rule of the instance's class, with the instance's configuration.
BuildOf(self, v) ==
    CASE self.cls = "AttrDict"    -> AttrDict_build(self.cls, v, self.recursive)
      [] self.cls \in AttrFamily  -> Attr_build(self.cls, v, self.sequence_type)
      [] self.cls = "AttrDefault" -> Mixins_build(self, v)

\* The values the build rule is tried on: scalars, a string, bytes,
\* mappings, and sequences of mappings, of scalars and of sequences.
BuildInputs ==
    Values \cup {Dict2, None, StrV("ab"), BytesV("ab"), DictV(EmptyMap),
                 TupleV(<<Dict1, Int1>>), ListV(<<List1, StrV("ab")>>),
                 TupleV(<<>>)}

\* cls._build(v), with the configuration of the instance.
Build ==
    \E v \in BuildInputs :
        Apply("build", "", v, Returns(BuildOf(Self, v), mapping, attrs, <<>>))

\* AttrDict.__copy__(): AttrDict(self._mapping, recursive, default_factory,
\* pass_key), a wrapper over the same mapping object with the attributes its
\* own __init__ mirrors.
AttrDict_copy(self) ==
    [tag |-> "wrapper", cls |-> self.cls, mapping |-> self.mapping,
     attrs |-> AttrDict_init_attrs(self.cls, self.mapping, self.recursive),
     config |-> [recursive |-> self.recursive,
                 default_factory |-> self.default_factory,
                 pass_key |-> self.pass_key]]

\* copy.copy(w); the copy is held by the caller (res.value) until Return.
Copy ==
    /\ cls = "AttrDict"
    /\ Apply("copy", "", None, Returns(AttrDict_copy(Self), mapping, attrs, <<>>))

\* The keys a nested mapping is given through the copy.
NestedKeys == {"foo", "get"}

\* The attributes a after the nested mapping stored at k became n: the
\* wrapper mirrored for k is over that same mapping object, and the
\* attributes mirrored in that wrapper are not touched.
ShareNested(a, k, n) ==
    IF k \in DOMAIN a /\ a[k].tag = "wrapper"
    THEN [a EXCEPT ![k].mapping = n]
    ELSE a

\* copied.k.j = 2, as in test_copy (bdict.foo.lorem = 'ipsum'): copied.k is
\* the wrapper the copy mirrored for k, and the assignment is that wrapper's
\* __setattr__.  Its backing mapping is the object stored at k in the
\* mapping the copy shares with the instance.
CopySetAttr ==
    /\ res.op = "copy"
    /\ \E k \in DOMAIN mapping, j \in NestedKeys :
          LET b  == AsSelf(res.value)
              rd == DotAccess(b, k)
          IN  /\ mapping[k].tag = "dict"
              /\ rd.status = "ok"
              /\ rd.value.tag = "wrapper"
              /\ LET o == DotAssign(AsSelf(rd.value), j, Int2)
                     w == [rd.value EXCEPT !.mapping = o.mapping, !.attrs = o.attrs]
                     m == Put(mapping, k, DictV(o.mapping))
                 IN  /\ mapping' = m
                     /\ attrs' = ShareNested(attrs, k, o.mapping)
                     /\ res' = [op |-> "copy_setattr", key |-> k,
                                arg |-> KeyValue(j), had |-> TRUE,
                                status |-> o.status,
                                value |-> [res.value EXCEPT
                                             !.mapping = m,
                                             !.attrs = Put(rd.attrs, k, w)],
                                calls |-> o.calls]
    /\ UNCHANGED <<cls, recursive, sequence_type, default_factory, pass_key>>

\* copied[k][j] = 2: copied[k] is the raw mapping stored at k (__getitem__
\* returns self._mapping[key]) and the assignment is dict's.  The wrappers
\* the instance and the copy mirrored for k are over that same object.
CopySetItem ==
    /\ res.op = "copy"
    /\ \E k \in DOMAIN mapping, j \in NestedKeys :
          LET b  == AsSelf(res.value)
              rd == ItemAccess(b, k)
          IN  /\ rd.status = "ok"
              /\ rd.value.tag = "dict"
              /\ LET n == Put(rd.value.items, j, Int2)
                     m == Put(rd.mapping, k, DictV(n))
                 IN  /\ mapping' = m
                     /\ attrs' = ShareNested(attrs, k, n)
                     /\ res' = [op |-> "copy_setitem", key |-> k,
                                arg |-> KeyValue(j), had |-> TRUE,
                                status |-> "ok",
                                value |-> [res.value EXCEPT
                                             !.mapping = m,
                                             !.attrs = ShareNested(rd.attrs, k, n)],
                                calls |-> rd.calls]
    /\ UNCHANGED <<cls, recursive, sequence_type, default_factory, pass_key>>

\* The settings files: what load_function returns for each.  'none.json'
\* does not exist, and 'int.json' holds a number.
Files ==
    ("a.json" :> DictV(MergeLeft)) @@ ("b.json" :> DictV(MergeRight))
        @@ ("int.json" :> Int1)

FileNames == DOMAIN Files \cup {"none.json"}

\* The lists of filenames load is called with.
MaxFiles == 2

FileLists == UNION {[1..n -> FileNames] : n \in 0..MaxFiles}

\* The keyword options load is called with.
LoadOptions == SUBSET {"load_function", "foo", "bar"}

\* The call of open(filename), and of load_function on the open file.
Opened(f) == [tag |-> "open", file |-> f]

Decoded(f) == [tag |-> "load_function", file |-> f]

\* The end of one turn of the loop of load: sum is what settings + the
\* decoded file gave.
LoadAdded(prev, f, sum) ==
    [status |-> sum.status,
     value  |-> IF sum.status = "ok" THEN sum.value ELSE None,
     calls  |-> prev.calls \o <<Opened(f), Decoded(f)>>]

\* One turn of the loop of load, after the turns that gave prev: the file is
\* opened, decoded, and added to the settings so far.  A turn that raised
\* ends the loop.
LoadStep(prev, f) ==
    IF prev.status # "ok" THEN prev
    ELSE IF f \notin DOMAIN Files
    THEN [status |-> "IOError", value |-> None,
          calls |-> Append(prev.calls, Opened(f))]
    ELSE LoadAdded(prev, f, Plus(AsSelf(prev.value), Files[f]))

\* The loop of load over the filenames fs, from the settings and the opens
\* and decodes that were there before it.
LoadFiles(fs, settings, events) ==
    LET turn[i \in 0..Len(fs)] ==
            IF i = 0
            THEN [status |-> "ok", value |-> settings, calls |-> events]
            ELSE LoadStep(turn[i - 1], fs[i])
    IN  turn[Len(fs)]

\* The argument of the TypeError that load raises.
UnknownOptions(names) == [tag |-> "unknown options", names |-> names]

\* A mutant of load: the options are looked at after the files were loaded.
Load_ChecksLast(fs, options) ==
    LET o == LoadFiles(fs, AttrDict_new("AttrDict", EmptyMap, TRUE), <<>>) IN
    IF o.status = "ok" /\ options \ {"load_function"} # {}
    THEN [status |-> "TypeError",
          value |-> UnknownOptions(options \ {"load_function"}),
          calls |-> o.calls]
    ELSE o

\* load(*filenames, **kwargs)
Load(fs, options) ==
    IF options \ {"load_function"} # {}
    THEN [status |-> "TypeError",
          value |-> UnknownOptions(options \ {"load_function"}),
          calls |-> <<>>]
    ELSE LoadFiles(fs, AttrDict_new("AttrDict", EmptyMap, TRUE), <<>>)

\* The arguments of a call of load.
LoadArgs(fs, options) == [tag |-> "load", filenames |-> fs, options |-> options]

\* The outcome o of a call that involves no instance, beside the wrapper
\* self, which is left as it was.
Beside(self, o) ==
    [status |-> o.status, value |-> o.value, mapping |-> self.mapping,
     attrs |-> self.attrs, calls |-> o.calls]

\* A call of load, of the module of AttrDict.  No instance is involved: the
\* call is made beside an empty one.
LoadCall ==
    /\ cls = "AttrDict"
    /\ mapping = EmptyMap
    /\ \E fs \in FileLists, options \in LoadOptions :
          Apply("load", "", LoadArgs(fs, options),
                Beside(Self, Load(fs, options)))

\* Attr.__getstate__(): (self._mapping, self._sequence_type)
Attr_getstate(self) ==
    [mapping |-> self.mapping, sequence_type |-> self.sequence_type]

\* A mutant of Attr.__setstate__: __init__ is called without sequence_type.
Attr_setstate_DefaultType(c, state) ==
    Attr_new(c, state.mapping, "tuple")

\* Attr.__setstate__(state) on a new object of class c:
\* self.__init__(items, sequence_type=sequence_type)
Attr_setstate(c, state) ==
    Attr_new(c, state.mapping, state.sequence_type)

\* AttrDefault.__getstate__(): (default_factory, mapping, sequence_type,
\* pass_key, allow_invalid_attributes).  __init__ sets the last to False; the
\* caller may have forced it, so it is passed as allow.
AttrDefault_getstate(self, allow) ==
    [default_factory |-> self.default_factory, mapping |-> self.mapping,
     sequence_type |-> self.sequence_type, pass_key |-> self.pass_key,
     allow_invalid_attributes |-> allow]

\* AttrDefault.__setstate__(state) on a new object of class c: the five
\* attributes are set, each forced.
AttrDefault_setstate(c, state) ==
    [tag |-> "wrapper", cls |-> c, mapping |-> state.mapping, attrs |-> EmptyMap,
     config |-> [sequence_type |-> state.sequence_type,
                 default_factory |-> state.default_factory,
                 pass_key |-> state.pass_key,
                 allow_invalid_attributes |-> state.allow_invalid_attributes]]

\* The classes with __getstate__ and __setstate__.
HasState == AttrFamily \cup {"AttrDefault"}

\* type(x).__new__(type(x)).__setstate__(x.__getstate__()), for an instance
\* whose _allow_invalid_attributes is allow.
Restored(self, allow) ==
    IF self.cls = "AttrDefault"
    THEN AttrDefault_setstate(self.cls, AttrDefault_getstate(self, allow))
    ELSE Attr_setstate(self.cls, Attr_getstate(self))

\* The state of the instance is saved and restored into a new object.
RoundTrip ==
    /\ cls \in HasState
    /\ \E allow \in (IF cls = "AttrDefault" THEN BOOLEAN ELSE {FALSE}) :
          Apply("roundtrip", "", BoolV(allow),
                Returns(Restored(Self, allow), mapping, attrs, <<>>))

\* The top-level sets and deletes: x[k] = 2, x.k = 2, del x[k], del x.k.
TopChanges == {"setitem", "setattr", "delitem", "delattr"}

\* The outcome of the top-level change of kind c of key k through self.
TopChange(self, c, k) ==
    CASE c = "setitem" -> ItemAssign(self, k, Int2)
      [] c = "setattr" -> DotAssign(self, k, Int2)
      [] c = "delitem" -> ItemDelete(self, k)
      [] c = "delattr" -> DotDelete(self, k)

\* A top-level set or delete through the held shallow copy or through the
\* instance.  Both are over the one mapping object, which the handler
\* changes; the attributes it mirrors or removes are those of the wrapper
\* it ran on.
SharedChange ==
    /\ res.op = "copy"
    /\ \E k \in NestedKeys, c \in TopChanges, side \in {"copy", "original"} :
          LET o == TopChange(IF side = "copy" THEN AsSelf(res.value) ELSE Self, c, k) IN
          /\ Cardinality(DOMAIN o.mapping) <= MaxLen
          /\ mapping' = o.mapping
          /\ attrs' = IF side = "original" THEN o.attrs ELSE attrs
          /\ res' = [op |-> "shared_change", key |-> k, arg |-> StrV(side),
                     had |-> k \in DOMAIN mapping, status |-> o.status,
                     value |-> [res.value EXCEPT
                                  !.mapping = o.mapping,
                                  !.attrs = IF side = "copy" THEN o.attrs ELSE @],
                     calls |-> o.calls]
    /\ UNCHANGED <<cls, recursive, sequence_type, default_factory, pass_key>>

\* A mutant of __deepcopy__: the wrapper is over the instance's own mapping.
AttrDict_deepcopy_SameMapping(self) ==
    [tag |-> "wrapper", cls |-> self.cls, mapping |-> self.mapping,
     attrs |-> AttrDict_init_attrs(self.cls, self.mapping, self.recursive),
     config |-> [recursive |-> self.recursive,
                 default_factory |-> self.default_factory,
                 pass_key |-> self.pass_key],
     backing |-> "shared"]

\* AttrDict.__deepcopy__(memo): AttrDict(deepcopy(self._mapping), recursive,
\* default_factory, pass_key).  deepcopy returns a new mapping object that
\* equals the instance's and holds new objects at every depth; backing tells
\* whether the wrapper is over an object of its own or over the instance's.
AttrDict_deepcopy(self) ==
    [tag |-> "wrapper", cls |-> self.cls, mapping |-> self.mapping,
     attrs |-> AttrDict_init_attrs(self.cls, self.mapping, self.recursive),
     config |-> [recursive |-> self.recursive,
                 default_factory |-> self.default_factory,
                 pass_key |-> self.pass_key],
     backing |-> "own"]

\* copy.deepcopy(w); the copy is held by the caller (res.value).
DeepCopy ==
    /\ cls = "AttrDict"
    /\ Apply("deepcopy", "", None,
             Returns(AttrDict_deepcopy(Self), mapping, attrs, <<>>))

\* The sets and deletes made through a wrapper, at the top level and in the
\* mapping nested under a key: x[k] = 2, del x[k], x.k = 2, del x.k,
\* x.k.j = 2 and del x[k][j].
ChangeKinds ==
    {"setitem", "delitem", "setattr", "delattr", "nested_setattr", "nested_delitem"}

ChangeKey == "foo"

\* self after x.k.j = 2: x.k is the wrapper mirrored for k, over the mapping
\* object stored at k, and the assignment is that wrapper's __setattr__.
\* When x.k is no such wrapper the assignment raises, after the read.
NestedSetAttr(self, k, j) ==
    LET rd == DotAccess(self, k) IN
    IF /\ k \in DOMAIN self.mapping
       /\ self.mapping[k].tag = "dict"
       /\ rd.status = "ok"
       /\ rd.value.tag = "wrapper"
       /\ rd.value.mapping = self.mapping[k].items
    THEN LET o == DotAssign(AsSelf(rd.value), j, Int2) IN
         With(self, Put(self.mapping, k, DictV(o.mapping)),
              IF k \in DOMAIN rd.attrs
              THEN Put(rd.attrs, k, [rd.value EXCEPT !.mapping = o.mapping,
                                                     !.attrs = o.attrs])
              ELSE rd.attrs)
    ELSE After(self, rd)

\* x.k is a wrapper over the mapping object stored at k.
NestedWrapper(self, k) ==
    LET rd == DotAccess(self, k) IN
    /\ k \in DOMAIN self.mapping
    /\ self.mapping[k].tag = "dict"
    /\ rd.status = "ok"
    /\ rd.value.tag = "wrapper"
    /\ rd.value.mapping = self.mapping[k].items

\* self after del x.k.j, for a wrapper x.k: the deletion is that wrapper's
\* __delattr__.
NestedDelAttr(self, k, j) ==
    LET rd == DotAccess(self, k)
        o  == DotDelete(AsSelf(rd.value), j)
    IN  With(self, Put(self.mapping, k, DictV(o.mapping)),
             IF k \in DOMAIN rd.attrs
             THEN Put(rd.attrs, k, [rd.value EXCEPT !.mapping = o.mapping,
                                                    !.attrs = o.attrs])
             ELSE rd.attrs)

\* w.k.j = 2 on a wrapper whose class has __setattr__ storing the pair
\* (MutableAttr has no _set), as in item_creation of test_common.py.
NestedAssign ==
    /\ cls = "AttrDict"
    /\ \E k \in DOMAIN mapping, j \in NestedKeys :
          /\ NestedWrapper(Self, k)
          /\ LET a == NestedSetAttr(Self, k, j)
                 o == DotAssign(AsSelf(DotAccess(Self, k).value), j, Int2)
             IN  Apply("nested_setattr", k, KeyValue(j),
                       [status |-> o.status, value |-> None, mapping |-> a.mapping,
                        attrs |-> a.attrs, calls |-> o.calls])

\* del w.k.j
NestedDelete ==
    /\ cls \in {"AttrDict", "MutableAttr"}
    /\ \E k \in DOMAIN mapping, j \in NestedKeys :
          /\ NestedWrapper(Self, k)
          /\ LET a == NestedDelAttr(Self, k, j)
                 o == DotDelete(AsSelf(DotAccess(Self, k).value), j)
             IN  Apply("nested_delattr", k, KeyValue(j),
                       [status |-> o.status, value |-> None, mapping |-> a.mapping,
                        attrs |-> a.attrs, calls |-> o.calls])

\* self after del x[k][j]: x[k] is the raw mapping stored at k and the
\* deletion is dict's.  When x[k] is no mapping holding j the deletion
\* raises, after the read.
NestedDelItem(self, k, j) ==
    LET rd == ItemAccess(self, k) IN
    IF rd.status = "ok" /\ rd.value.tag = "dict" /\ j \in DOMAIN rd.value.items
    THEN With(self, Put(rd.mapping, k, DictV(Drop(rd.value.items, j))),
              ShareNested(rd.attrs, k, Drop(rd.value.items, j)))
    ELSE After(self, rd)

\* self after the change of kind c made through it.
Changed(self, c) ==
    CASE c = "setitem"        -> After(self, ItemAssign(self, ChangeKey, Int2))
      [] c = "delitem"        -> After(self, ItemDelete(self, ChangeKey))
      [] c = "setattr"        -> After(self, DotAssign(self, ChangeKey, Int2))
      [] c = "delattr"        -> After(self, DotDelete(self, ChangeKey))
      [] c = "nested_setattr" -> NestedSetAttr(self, ChangeKey, NestedKey)
      [] c = "nested_delitem" -> NestedDelItem(self, ChangeKey, NestedKey)

\* The steps of a caller that holds an instance and a deep copy of it.
DeepOps == {"deepcopy", "through_copy", "through_original"}

\* A set or delete through the held copy.  The instance's mapping is the
\* copy's only when the copy is over that same object.
CopyChanged(c, b) ==
    /\ Cardinality(DOMAIN b.mapping) <= MaxLen
    /\ res' = [res EXCEPT !.op = "through_copy",
                          !.arg = StrV(c),
                          !.value = [res.value EXCEPT !.mapping = b.mapping,
                                                      !.attrs = b.attrs]]
    /\ mapping' = IF res.value.backing = "own" THEN mapping ELSE b.mapping

ThroughCopy ==
    /\ res.op \in DeepOps
    /\ \E c \in ChangeKinds : CopyChanged(c, Changed(AsSelf(res.value), c))
    /\ UNCHANGED <<cls, attrs, recursive, sequence_type, default_factory, pass_key>>

\* A set or delete through the instance while the copy is held.
OriginalChanged(c, a) ==
    /\ Cardinality(DOMAIN a.mapping) <= MaxLen
    /\ mapping' = a.mapping
    /\ attrs' = a.attrs
    /\ res' = [res EXCEPT !.op = "through_original",
                          !.arg = StrV(c),
                          !.value = IF res.value.backing = "own"
                                    THEN res.value
                                    ELSE [res.value EXCEPT !.mapping = a.mapping]]

ThroughOriginal ==
    /\ res.op \in DeepOps
    /\ \E c \in ChangeKinds : OriginalChanged(c, Changed(Self, c))
    /\ UNCHANGED <<cls, recursive, sequence_type, default_factory, pass_key>>

\* The values the operands of a merge of three hold: two scalars, mappings
\* of one and of two keys, and a mapping that holds a mapping.
AssocValues ==
    {Int1, Int9, Dict1, DictV(("get" :> Int2) @@ ("foo" :> Int9)), Dict2}

AssocKeys == {"foo", "get"}

\* The operands of a merge of three: every mapping over AssocKeys.
AssocArgs ==
    UNION {[ks -> AssocValues] : ks \in SUBSET AssocKeys}

\* merge(a, merge(b, c)) and merge(merge(a, b), c): the inner result is the
\* AttrDict merge() returned, and the outer call reads it as a Mapping.
MergeNested(a, b, c, rec) ==
    AttrDict_merge(a, AttrDict_merge(b, c, rec).mapping, rec)

MergeGrouped(a, b, c, rec) ==
    AttrDict_merge(AttrDict_merge(a, b, rec).mapping, c, rec)

\* Both groupings of a merge of three mappings, beside a fresh AttrDict whose
\* recursive flag is the one the calls pass; the wrapper is left as it was.
MergeThree ==
    /\ cls = "AttrDict"
    /\ mapping = EmptyMap
    /\ default_factory = "None"
    /\ res = NoResult
    /\ \E a \in AssocArgs, b \in AssocArgs, c \in AssocArgs :
          Apply("merge_three", "", TupleV(<<DictV(a), DictV(b), DictV(c)>>),
                Returns(TupleV(<<MergeNested(a, b, c, recursive),
                                 MergeGrouped(a, b, c, recursive)>>),
                        mapping, attrs, <<>>))

\* What a caller hands to a constructor as items: a dict, or the same pairs
\* as a list of two-tuples, foo's before get's.
ConstructKeys == {"foo", "get"}

ConstructMappings ==
    UNION {[ks -> {Int1, Dict1}] : ks \in SUBSET ConstructKeys}

PairsOf(m) ==
    ListV((IF "foo" \in DOMAIN m
           THEN <<TupleV(<<StrV("foo"), m["foo"]>>)>> ELSE <<>>)
          \o (IF "get" \in DOMAIN m
              THEN <<TupleV(<<StrV("get"), m["get"]>>)>> ELSE <<>>))

ConstructItems ==
    {DictV(m) : m \in ConstructMappings} \cup {PairsOf(m) : m \in ConstructMappings}

\* The keyword items of a construction.
ConstructKwargs ==
    UNION {[ks -> {Int2, Int9}] : ks \in SUBSET ConstructKeys}

RECURSIVE DictOfPairs(_)
\* dict(items) for a sequence of two-tuples: a later pair replaces an
\* earlier one of the same key.
DictOfPairs(pairs) ==
    IF pairs = <<>> THEN EmptyMap
    ELSE LET last == pairs[Len(pairs)] IN
         Put(DictOfPairs(SubSeq(pairs, 1, Len(pairs) - 1)),
             last.elems[1].val, last.elems[2])

\* AttrDict.__init__(items, **kwargs) of attrdict/attrdictionary.py: a
\* Mapping is kept as the mapping, anything else goes through dict(); every
\* keyword is then stored into that mapping, which Attr.__init__ keeps.
\* caller is the object that was passed in, after the call.
AttrDictionary_init(items, kwargs) ==
    LET kept    == IF items.tag = "dict" THEN items.items
                   ELSE DictOfPairs(items.elems)
        written == [k \in DOMAIN kept \cup DOMAIN kwargs |->
                       IF k \in DOMAIN kwargs THEN kwargs[k] ELSE kept[k]]
    IN  [caller  |-> IF items.tag = "dict" THEN DictV(written) ELSE items,
         wrapper |-> Attr_new("MutableAttr", written, "tuple")]

\* AttrDict.__init__(mapping) of attrdict/__init__.py, which takes no
\* keyword items: the mapping object is kept, and setattr() stores each
\* valid key's own value back under the key.
AttrDict_init(items, rec) ==
    LET w == AttrDict_new("AttrDict", items.items, rec) IN
    [caller |-> DictV(w.mapping), wrapper |-> w]

\* A construction from an object the caller holds, beside the wrapper, which
\* is left as it was: res.value is the caller's object after the call and
\* the new wrapper.
Construct ==
    /\ cls \in {"AttrDict", "MutableAttr"}
    /\ mapping = EmptyMap
    /\ default_factory = "None"
    /\ res = NoResult
    /\ \E items \in ConstructItems, kwargs \in ConstructKwargs :
          /\ cls = "AttrDict" => (items.tag = "dict" /\ kwargs = EmptyMap)
          /\ LET made == IF cls = "AttrDict" THEN AttrDict_init(items, recursive)
                         ELSE AttrDictionary_init(items, kwargs)
             IN  Apply("construct", "", TupleV(<<items, DictV(kwargs)>>),
                       Returns(TupleV(<<made.caller, made.wrapper>>),
                               mapping, attrs, <<>>))

Return ==
    /\ res # NoResult
    /\ res' = NoResult
    /\ UNCHANGED <<cls, mapping, attrs, recursive, sequence_type,
                   default_factory, pass_key>>

Next ==
    \/ GetItem
    \/ SetItem
    \/ DelItem
    \/ GetAttr
    \/ SetAttr
    \/ DelAttr
    \/ Call
    \/ Get
    \/ Contains
    \/ Pop
    \/ PopItem
    \/ Clear
    \/ Update
    \/ SetDefault
    \/ ValuesView
    \/ ItemsView
    \/ Return

Spec == Init /\ [][Next]_vars

\* The instance together with a holder of the mapping it was constructed
\* over and of the raw values it returned: the reads of the instance,
\* interleaved with changes made from outside.
NextLive ==
    \/ GetItem
    \/ GetAttr
    \/ Call
    \/ ExternalSet
    \/ NestedSet
    \/ Return

SpecLive == Init /\ [][NextLive]_vars

\* merge and addition applied to an instance as it was constructed, and to
\* plain mappings.
NextMerge ==
    \/ Add
    \/ RAdd
    \/ MergeCall
    \/ Return

SpecMerge == Init /\ [][NextMerge]_vars

\* The build rule applied to values of every kind.
NextAssoc ==
    \/ MergeThree
    \/ Return

SpecAssoc == Init /\ [][NextAssoc]_vars

NextConstruct ==
    \/ Construct
    \/ Return

SpecConstruct == Init /\ [][NextConstruct]_vars

NextBuild ==
    \/ Build
    \/ Return

SpecBuild == Init /\ [][NextBuild]_vars

\* The sets and deletes made through the wrapper that attribute access
\* returned for a nested mapping, between reads, sets and deletes of the
\* instance's own keys.
NextNested ==
    \/ GetItem
    \/ GetAttr
    \/ SetItem
    \/ DelItem
    \/ NestedAssign
    \/ NestedDelete
    \/ Return

SpecNested == Init /\ [][NextNested]_vars

\* The calls of load.
NextLoad ==
    \/ LoadCall
    \/ Return

SpecLoad == Init /\ [][NextLoad]_vars

\* The state of an instance as it was constructed, saved and restored.
NextState ==
    \/ RoundTrip
    \/ Return

SpecState == Init /\ [][NextState]_vars

\* A deep copy of an instance as it was constructed, and the sets and
\* deletes a caller makes through the copy and through the instance.
NextDeep ==
    \/ DeepCopy
    \/ ThroughCopy
    \/ ThroughOriginal
    \/ Return

SpecDeep == Init /\ [][NextDeep]_vars

\* A shallow copy of an instance as it was constructed, and the changes a
\* caller makes to a nested mapping through the copy.
NextCopy ==
    \/ Copy
    \/ CopySetAttr
    \/ CopySetItem
    \/ SharedChange
    \/ Return

SpecCopy == Init /\ [][NextCopy]_vars

(***************************************************************************)
(* Helpers of the properties.                                              *)
(***************************************************************************)
\* The key is not attribute-safe for what it is: not a string, or a string
\* that does not match the identifier pattern (a leading underscore, or a
\* character that is no letter, digit or underscore).
UnsafeByForm(k) == ~IsString(k) \/ ~MatchesIdentifier(k)

\* The set and delete operations, by item and by attribute syntax.
SetDeleteOps == {"setitem", "setattr", "delitem", "delattr"}

(***************************************************************************)
(* Properties.                                                             *)
(***************************************************************************)
\* C1: on AttrDict of __init__.py, after any sequence of operations, every
\* attribute-safe key k that is in the backing mapping is readable as an
\* attribute, and the read returns the build-wrapped form of the value stored
\* at backing[k]; with no default factory, an attribute-safe key that is not
\* in the backing mapping is not readable as an attribute.
C1_Mirroring ==
    cls = "AttrDict" =>
        \A k \in KeysOf(cls) :
            ValidName(cls, k) =>
                LET o == DotAccess(Self, k) IN
                /\ k \in DOMAIN mapping =>
                      /\ o.status = "ok"
                      /\ o.value = BuildOf(Self, o.mapping[k])
                /\ (k \notin DOMAIN mapping /\ default_factory = "None") =>
                      o.status = "AttributeError"

C3_Atomic ==
    [][(/\ cls \in {"AttrDict", "MutableAttr"}
        /\ res'.op \in SetDeleteOps
        /\ res'.status # "ok") =>
            (mapping' = mapping /\ attrs' = attrs)]_vars

RawReads == {"getitem", "get"}

\* C5: for a key that is present in the backing mapping and is not
\* attribute-safe by its form (not a string, a leading underscore, or not an
\* identifier), attribute access fails and alters nothing, while item access
\* and get return the stored value and call access its build-wrapped form,
\* with or without a default factory.
C5_UnsafeDot ==
    [][(res'.had /\ UnsafeByForm(res'.key)) =>
            /\ res'.op = "getattr" =>
                  (res'.status # "ok" /\ mapping' = mapping /\ attrs' = attrs)
            /\ res'.op \in RawReads =>
                  (res'.status = "ok" /\ res'.value = mapping[res'.key])
            /\ res'.op = "call" =>
                  /\ res'.status = "ok"
                  /\ res'.value = BuildOf(Self, mapping[res'.key])]_vars

\* C6: a key that names a member of the wrapper's class (a method such as
\* get, a property of a subclass) is never exposed by attribute access:
\* wrapper.k is the class member whatever has been set or deleted, while item
\* access returns the stored value and call access its build-wrapped form.
C6_ClassNames ==
    \A k \in KeysOf(cls) :
        HasAttr(cls, k) =>
            /\ DotAccess(Self, k) = Returns(Member(cls, k), mapping, attrs, <<>>)
            /\ k \in DOMAIN mapping =>
                  /\ ItemAccess(Self, k).status = "ok"
                  /\ ItemAccess(Self, k).value = mapping[k]
                  /\ cls \in HasCall =>
                        /\ CallAccess(Self, k).status = "ok"
                        /\ CallAccess(Self, k).value = BuildOf(Self, mapping[k])

\* C6 witness: the key 'get' has just been set by item syntax on an AttrDict
\* of __init__.py.
C6_Witness ==
    /\ cls = "AttrDict"
    /\ res.op = "setitem"
    /\ res.key = "get"
    /\ res.status = "ok"
    /\ "get" \in DOMAIN mapping

\* The reads that the default factory serves.
FactoryReads == {"getitem", "call", "getattr"}

\* C7: with a default factory, item, call and attribute access of an absent
\* key (attribute-safe, for attribute access) each invoke the factory exactly
\* once (with the key as its argument iff pass_key), store the result at
\* backing[k] and return it: item access the stored value itself, call and
\* attribute access its build-wrapped form.
C7_FactoryRule ==
    (/\ default_factory # "None"
     /\ res.op \in FactoryReads
     /\ ~res.had
     /\ res.op = "getattr" => ValidName(cls, res.key)) =>
        LET args == IF pass_key THEN <<KeyValue(res.key)>> ELSE <<>>
            v == FactoryCall(default_factory, args)
        IN  /\ res.status = "ok"
            /\ res.calls = <<args>>
            /\ res.key \in DOMAIN mapping
            /\ mapping[res.key] = v
            /\ res.value = IF res.op = "getitem" THEN v ELSE BuildOf(Self, v)

\* The pure queries.
Queries == {"get", "contains"}

\* C8: get and containment are pure queries: they never raise, never invoke
\* the default factory and never change the backing mapping, even when a
\* factory is configured; get returns the stored value or the supplied
\* default, containment tells whether the key is stored.
C8_PureQueries ==
    [][res'.op \in Queries =>
            /\ res'.status = "ok"
            /\ res'.calls = <<>>
            /\ mapping' = mapping /\ attrs' = attrs
            /\ res'.op = "get" =>
                  res'.value = IF res'.had THEN mapping[res'.key] ELSE res'.arg
            /\ res'.op = "contains" => res'.value = BoolV(res'.had)]_vars

\* The classes whose instances are read-only wrappers.
ReadOnlyClasses == {"Attr", "DefaultAttr"}

\* C9: on the read-only Attr, attribute assignment, item assignment,
\* attribute deletion and item deletion each raise TypeError, and afterwards
\* the state and the results of item and attribute reads are as before.
C9_ReadOnly ==
    [][(cls \in ReadOnlyClasses /\ res'.op \in SetDeleteOps) =>
            /\ res'.status = "TypeError"
            /\ mapping' = mapping /\ attrs' = attrs
            /\ \A k \in KeysOf(cls) :
                  /\ ItemAccess(Self, k)' = ItemAccess(Self, k)
                  /\ DotAccess(Self, k)' = DotAccess(Self, k)]_vars

\* C9 witness: the deletion of a present key by item syntax has just been
\* refused on a read-only Attr.
C9_Witness ==
    /\ cls = "Attr"
    /\ res.op = "delitem"
    /\ res.status = "TypeError"
    /\ res.key \in DOMAIN mapping

\* C10: on the mutable wrappers, attribute assignment to a name that is not
\* attribute-safe, and attribute deletion of a name that is not
\* attribute-safe or names no key of the mapping, raise TypeError and leave
\* the mapping and the mirrored attributes unchanged.
C10_InvalidMutation ==
    [][(/\ cls \in {"AttrDict", "MutableAttr"}
        /\ \/ res'.op = "setattr" /\ ~ValidName(cls, res'.key)
           \/ /\ res'.op = "delattr"
              /\ (~ValidName(cls, res'.key) \/ res'.key \notin DOMAIN mapping)) =>
            /\ res'.status = "TypeError"
            /\ mapping' = mapping /\ attrs' = attrs]_vars

\* C10 witness: the deletion by attribute syntax of the stored key 'get',
\* which names a method of the class, has just been refused.
C10_Witness ==
    /\ cls = "AttrDict"
    /\ res.op = "delattr"
    /\ res.key = "get"
    /\ res.status = "TypeError"
    /\ "get" \in DOMAIN mapping

\* The classes whose instances are mutable wrappers with mirrored or
\* attribute-style mutation.
MutableClasses == {"AttrDict", "MutableAttr"}

\* C11: on the mutable wrappers, deleting a present attribute-safe key by
\* del w.k or by del w[k] completes without raising and removes k from the
\* backing mapping, leaving every other key as it was; afterwards, with no
\* default factory, attribute access of k raises AttributeError and item
\* access of k raises KeyError.
C11_DeletePresent ==
    [][(/\ cls \in MutableClasses
        /\ res'.op \in {"delitem", "delattr"}
        /\ res'.had
        /\ ValidName(cls, res'.key)) =>
            /\ res'.status = "ok"
            /\ mapping' = Drop(mapping, res'.key)
            /\ default_factory = "None" =>
                  /\ DotAccess(Self', res'.key).status = "AttributeError"
                  /\ ItemAccess(Self', res'.key).status = "KeyError"]_vars

\* No attribute-safe key of the instance is readable as an attribute.
NoAttributeReadable(self) ==
    \A k \in KeysOf(self.cls) :
        ValidName(self.cls, k) => DotAccess(self, k).status = "AttributeError"

\* C12: on AttrDict of __init__.py the derived operations keep the attributes
\* in step with the backing mapping: clear(), and the popitem() that removes
\* the last key, complete and leave the mapping empty and (with no default
\* factory) no attribute-safe key readable as an attribute; after update or
\* setdefault every added or changed attribute-safe key reads the
\* build-wrapped form of its new value by attribute access.
C12_DerivedOperations ==
    [][cls = "AttrDict" =>
          /\ (\/ res'.op = "clear"
              \/ res'.op = "popitem" /\ Cardinality(DOMAIN mapping) = 1) =>
                 /\ res'.status = "ok"
                 /\ mapping' = EmptyMap
                 /\ default_factory = "None" => NoAttributeReadable(Self')
          /\ res'.op \in {"update", "setdefault"} =>
                 /\ res'.status = "ok"
                 /\ \A k \in DOMAIN mapping' :
                       (/\ ValidName(cls, k)
                        /\ (k \notin DOMAIN mapping \/ mapping'[k] # mapping[k])) =>
                           /\ DotAccess(Self', k).status = "ok"
                           /\ DotAccess(Self', k).value =
                                 BuildOf(Self, mapping'[k])]_vars

\* The instance converts the sequences it returns by attribute and call
\* access (a sequence container is configured, recursive is on).
ConvertsSequences(self) ==
    IF self.cls = "AttrDict" THEN self.recursive ELSE self.sequence_type # "None"

RECURSIVE WrapsEveryMapping(_, _, _)

\* v is what attribute or call access may return for the stored value raw:
\* a wrapper of the instance's class over raw itself when raw is a mapping,
\* whose item access returns the nested values as stored and whose attribute
\* access wraps them in turn; a sequence that wraps the mappings among its
\* elements when raw is a sequence that the instance converts.
WrapsEveryMapping(self, v, raw) ==
    IF raw.tag = "dict"
    THEN /\ v.tag = "wrapper"
         /\ v.cls = self.cls
         /\ v.mapping = raw.items
         /\ \A k \in DOMAIN raw.items :
               /\ ItemAccess(AsSelf(v), k).value = raw.items[k]
               /\ ValidName(self.cls, k) =>
                     WrapsEveryMapping(self, DotAccess(AsSelf(v), k).value,
                                       raw.items[k])
    ELSE IF raw.tag \in {"list", "tuple"} /\ ConvertsSequences(self)
    THEN /\ v.tag \in {"list", "tuple"}
         /\ Len(v.elems) = Len(raw.elems)
         /\ \A i \in 1..Len(raw.elems) :
               WrapsEveryMapping(self, v.elems[i], raw.elems[i])
    ELSE v.tag # "wrapper"

\* C13: item access, get, values() and items() return a stored value as it is
\* stored (a nested mapping stays a plain mapping), while attribute access
\* and call access of the same key return a wrapper for a nested mapping, at
\* every nesting depth and for the mappings inside a sequence that the
\* instance converts.
C13_RawVersusWrapped ==
    /\ \A k \in DOMAIN mapping :
          /\ ItemAccess(Self, k).value = mapping[k]
          /\ GetAccess(Self, k, None).value = mapping[k]
          /\ ValidName(cls, k) =>
                WrapsEveryMapping(Self, DotAccess(Self, k).value, mapping[k])
          /\ cls \in HasCall =>
                WrapsEveryMapping(Self, CallAccess(Self, k).value, mapping[k])
    /\ res.op = "values" =>
          /\ Len(res.value.elems) = Cardinality(DOMAIN mapping)
          /\ \A i \in 1..Len(res.value.elems) :
                \E k \in DOMAIN mapping : res.value.elems[i] = mapping[k]
    /\ res.op = "items" =>
          /\ Len(res.value.elems) = Cardinality(DOMAIN mapping)
          /\ \A i \in 1..Len(res.value.elems) :
                \E k \in DOMAIN mapping :
                    res.value.elems[i] = TupleV(<<KeyValue(k), mapping[k]>>)

\* The container of the sequence that build returns for the sequence obj:
\* the configured sequence type, or obj's own type on AttrDict of
\* __init__.py, which has none to configure.
ContainerOf(self, obj) ==
    IF self.cls = "AttrDict" THEN obj.tag ELSE self.sequence_type

\* C14: build(value) is a wrapper of the instance's class over value when
\* value is a mapping; the sequence container holding build(element) for
\* each element in order when value is a list or tuple and the instance
\* converts sequences; and value itself in every other case.
C14_BuildRule ==
    res.op = "build" =>
        LET v == res.arg
            b == res.value
        IN  IF v.tag = "dict"
            THEN /\ b.tag = "wrapper"
                 /\ b.cls = cls
                 /\ b.mapping = v.items
            ELSE IF v.tag \in {"list", "tuple"} /\ ConvertsSequences(Self)
            THEN /\ b.tag = ContainerOf(Self, v)
                 /\ Len(b.elems) = Len(v.elems)
                 /\ \A i \in 1..Len(v.elems) :
                       b.elems[i] = BuildOf(Self, v.elems[i])
            ELSE b = v

\* C14 witness: build has just returned the converted form of a list whose
\* element is a mapping.
C14_Witness ==
    /\ res.op = "build"
    /\ res.status = "ok"
    /\ res.arg = List1
    /\ ConvertsSequences(Self)
    /\ res.value.elems[1].tag = "wrapper"

\* The changes made to the backing store from outside the instance.
ExternalOps == {"external_set", "nested_set"}

\* C15: attribute access is a live view: after the backing mapping, or a raw
\* nested mapping stored in it, has been changed from outside the wrapper,
\* attribute access and call access of the affected key return the
\* build-wrapped form of the value as it is now stored.
C15_LiveView ==
    [][res'.op \in ExternalOps =>
          /\ ValidName(cls, res'.key) =>
                /\ DotAccess(Self', res'.key).status = "ok"
                /\ DotAccess(Self', res'.key).value =
                      BuildOf(Self, mapping'[res'.key])
          /\ cls \in HasCall =>
                /\ CallAccess(Self', res'.key).status = "ok"
                /\ CallAccess(Self', res'.key).value =
                      BuildOf(Self, mapping'[res'.key])]_vars

RECURSIVE Plain(_)

\* The value as == compares it: a wrapper equals the plain mapping of its
\* pairs, and mappings and sequences are compared pair by pair and element
\* by element.
Plain(v) ==
    IF IsMapping(v)
    THEN DictV([k \in DOMAIN MappingItems(v) |-> Plain(MappingItems(v)[k])])
    ELSE IF v.tag \in {"list", "tuple"}
    THEN [tag |-> v.tag, elems |-> [i \in 1..Len(v.elems) |-> Plain(v.elems[i])]]
    ELSE v

RECURSIVE MergedAs(_, _, _)

\* v is a mapping that holds the keys of l and of r and, under each key, l's
\* value if only l has the key, r's value if only r has it, a mapping that
\* is merged in the same way if both values are mappings, and r's value
\* otherwise.
MergedAs(v, l, r) ==
    /\ IsMapping(v)
    /\ DOMAIN MappingItems(v) = DOMAIN l \cup DOMAIN r
    /\ \A k \in DOMAIN l \cup DOMAIN r :
          LET x == MappingItems(v)[k] IN
          IF k \notin DOMAIN r THEN Plain(x) = Plain(l[k])
          ELSE IF k \notin DOMAIN l THEN Plain(x) = Plain(r[k])
          ELSE IF IsMapping(l[k]) /\ IsMapping(r[k])
          THEN MergedAs(x, MappingItems(l[k]), MappingItems(r[k]))
          ELSE Plain(x) = Plain(r[k])

\* The merges of the instance with a plain mapping.
MergeOps == {"merge_left", "merge_right"}

\* C16: merge(left, right) holds the union of the keys; a key of one side
\* only takes that side's value, a key of both takes the recursive merge of
\* the two values when both are mappings and right's value otherwise.  For
\* left = {'a': {'x': 1}} and right = {'a': {'y': 2, 'x': 9}},
\* merge(left, right)['a']['x'] is 9 and merge(right, left)['a']['x'] is 1.
C16_MergeKeys ==
    res.op \in MergeOps =>
        /\ res.status = "ok"
        /\ IF res.op = "merge_left"
           THEN MergedAs(res.value, mapping, res.arg.items)
           ELSE MergedAs(res.value, res.arg.items, mapping)
        /\ (mapping = MergeLeft /\ res.arg = DictV(MergeRight)) =>
              MappingItems(MappingItems(res.value)["foo"])["foo"] =
                 IF res.op = "merge_left" THEN Int9 ELSE Int1

\* C16 witness: merge(left, right) has just been computed for the left and
\* right above, and holds 9 under ['a']['x'] and 2 under ['a']['y'].
C16_Witness ==
    /\ cls = "AttrDict"
    /\ res.op = "merge_left"
    /\ mapping = MergeLeft
    /\ res.arg = DictV(MergeRight)
    /\ Plain(res.value) =
          DictV("foo" :> DictV(("get" :> Int2) @@ ("foo" :> Int9)))

\* The instance as == compares it.
PlainSelf == DictV([k \in DOMAIN mapping |-> Plain(mapping[k])])

\* The empty operands: the empty plain mapping and the empty wrapper.
EmptyOperands == {DictV(EmptyMap), WrapperOver(Self, EmptyMap)}

\* C17: merging or adding the empty mapping changes nothing: merge(x, {}),
\* merge({}, x), x + {}, x + empty wrapper and {} + x equal x, and so do
\* empty wrapper + x and x + empty wrapper for a plain or wrapped x.
C17_MergeIdentity ==
    /\ (res.op \in MergeOps \cup {"add", "radd"} /\ res.arg \in EmptyOperands) =>
          (res.status = "ok" /\ Plain(res.value) = PlainSelf)
    /\ (res.op \in {"add", "radd"} /\ mapping = EmptyMap /\ IsMapping(res.arg)) =>
          (res.status = "ok" /\ Plain(res.value) = Plain(res.arg))

\* C17 witness: a wrapper that holds a nested mapping has just been added to
\* the empty plain mapping.
C17_Witness ==
    /\ cls = "AttrDict"
    /\ res.op = "add"
    /\ res.arg = DictV(EmptyMap)
    /\ "foo" \in DOMAIN mapping
    /\ mapping["foo"] = Dict1
    /\ Plain(res.value) = PlainSelf

\* The merges and additions.
SumOps == MergeOps \cup {"add", "radd"}

\* C18: merge and + leave the wrapper operand as it was, at every depth, and
\* trigger no default-factory synthesis in it; the merge of __init__.py and
\* the sum of two mappings are a new wrapper.
C18_MergeFrame ==
    [][res'.op \in SumOps =>
          /\ mapping' = mapping
          /\ attrs' = attrs
          /\ res'.calls = <<>>
          /\ (IsMapping(res'.arg) /\ (cls = "AttrDict" \/ res'.op \notin MergeOps)) =>
                (res'.status = "ok" /\ res'.value.tag = "wrapper")]_vars

\* C18 witness: a wrapper with a default factory has just been added to a
\* plain mapping that holds a key the wrapper lacks.
C18_Witness ==
    /\ cls = "AttrDict"
    /\ default_factory # "None"
    /\ res.op = "add"
    /\ res.arg = DictV(MergeRight)
    /\ "foo" \notin DOMAIN mapping
    /\ res.value.tag = "wrapper"

\* C19: __add__ and __radd__ of a wrapper answer NotImplemented to an operand
\* that is no mapping; wrapper + other is then other's reflected addition
\* when it has one and TypeError otherwise, other + wrapper is TypeError; the
\* wrapper is as it was.
C19_NonMappingOperand ==
    [][(res'.op \in {"add", "radd"} /\ res'.arg \in NonMappings) =>
          /\ Class_add(Self, res'.arg).value = NotImplemented
          /\ Class_radd(Self, res'.arg).value = NotImplemented
          /\ IF res'.op = "add" /\ res'.arg = Reflector
             THEN res'.status = "ok" /\ res'.value = Reflected
             ELSE res'.status = "TypeError"
          /\ mapping' = mapping
          /\ attrs' = attrs
          /\ res'.calls = <<>>]_vars

\* C19 witness: a wrapper holding a nested mapping was added to an object
\* that only has __radd__, and the sum is what that __radd__ returned.
C19_Witness ==
    /\ res.op = "add"
    /\ res.arg = Reflector
    /\ res.value = Reflected
    /\ "foo" \in DOMAIN mapping
    /\ mapping["foo"] = Dict1

\* The changes made to a nested mapping through the copy.
CopySets == {"copy_setattr", "copy_setitem"}

\* The value read under j, by item syntax, from the value v.
NestedItem(v, j) ==
    IF IsMapping(v) /\ j \in DOMAIN MappingItems(v) THEN MappingItems(v)[j] ELSE None

\* C20: a shallow copy has the configuration of the instance and equals it;
\* after a nested mapping was changed through the copy, by attribute or by
\* item syntax, the new value is what the instance reads there, by item and
\* by attribute syntax, and the two still compare equal.
C20_ShallowCopy ==
    /\ res.op = "copy" =>
          /\ res.value.cls = cls
          /\ res.value.config = [recursive |-> recursive,
                                 default_factory |-> default_factory,
                                 pass_key |-> pass_key]
          /\ Plain(res.value) = PlainSelf
    /\ (res.op \in CopySets /\ res.status = "ok") =>
          /\ Plain(res.value) = PlainSelf
          /\ \A j \in NestedKeys : res.arg = KeyValue(j) =>
                /\ NestedItem(ItemAccess(Self, res.key).value, j) = Int2
                /\ (ValidName(cls, res.key) /\ ValidName(cls, j)) =>
                      LET rd == DotAccess(Self, res.key) IN
                      /\ rd.status = "ok"
                      /\ IsMapping(rd.value)
                      /\ DotAccess(AsSelf(rd.value), j).value = Int2

\* C21: a deep copy has the class and the configuration of the instance and
\* equals it; a set or delete made through the copy, at the top level or in
\* a nested mapping, leaves the instance's backing mapping as it was, and
\* one made through the instance leaves the copy's as it was.
C21_DeepCopy ==
    [][/\ res'.op = "deepcopy" =>
             /\ res'.value.cls = cls
             /\ res'.value.config = [recursive |-> recursive,
                                     default_factory |-> default_factory,
                                     pass_key |-> pass_key]
             /\ Plain(res'.value) = PlainSelf
       /\ res'.op = "through_copy" => mapping' = mapping
       /\ res'.op = "through_original" =>
             res'.value.mapping = res.value.mapping]_vars

\* C21 witness: a key was set in the mapping nested under 'foo' through the
\* deep copy, and the instance still holds the nested mapping it had.
C21_Witness ==
    /\ res.op = "through_copy"
    /\ res.arg = StrV("nested_setattr")
    /\ "foo" \in DOMAIN mapping
    /\ mapping["foo"] = Dict1
    /\ res.value.mapping["foo"] = DictV("foo" :> Int2)

\* C22: the wrapper restored from the saved state of an instance has the
\* instance's class, equals it, and has its sequence type, default factory,
\* pass_key and allow-invalid-attributes flag: every item and attribute read
\* of the restored wrapper has the outcome that read has on the instance,
\* the container of a wrapped sequence and the value synthesized for a
\* missing key included.
C22_StateRoundTrip ==
    res.op = "roundtrip" =>
        LET x == AsSelf(res.value) IN
        /\ res.value.cls = cls
        /\ Plain(res.value) = PlainSelf
        /\ x.sequence_type = sequence_type
        /\ x.default_factory = default_factory
        /\ x.pass_key = pass_key
        /\ cls = "AttrDefault" =>
              BoolV(res.value.config.allow_invalid_attributes) = res.arg
        /\ \A k \in KeysOf(cls) :
              /\ ItemAccess(x, k) = ItemAccess(Self, k)
              /\ DotAccess(x, k) = DotAccess(Self, k)

\* C22 witness: an Attr with sequence_type=None that holds a list was
\* restored, and the attribute read of the restored wrapper returns the list
\* as it is stored.
C22_Witness ==
    /\ res.op = "roundtrip"
    /\ cls = "Attr"
    /\ sequence_type = "None"
    /\ "foo" \in DOMAIN mapping
    /\ mapping["foo"] = List1
    /\ DotAccess(AsSelf(res.value), "foo").value = List1

\* C23: load called with an option other than load_function raises
\* TypeError naming the unknown options, and no file was opened or decoded,
\* whatever the filenames.
C23_UnknownOptions ==
    (res.op = "load" /\ res.arg.options \ {"load_function"} # {}) =>
        /\ res.status = "TypeError"
        /\ res.value = UnknownOptions(res.arg.options \ {"load_function"})
        /\ res.calls = <<>>

\* C23 witness: load was called with two filenames, a load_function and
\* the unknown option foo, and raised TypeError.
C23_Witness ==
    /\ res.op = "load"
    /\ Len(res.arg.filenames) = 2
    /\ res.arg.options = {"load_function", "foo"}
    /\ res.status = "TypeError"

\* The reads by item, call and attribute syntax.
ReadOps == {"getitem", "call", "getattr"}

\* C24: with a default factory configured, a read by item, call or attribute
\* syntax of a key that the backing mapping holds (attribute-safe, for the
\* attribute syntax) returns the stored value, raw or as build wraps it,
\* calls no factory and leaves the backing mapping as it was, also when the
\* key is there because an earlier read synthesized it.
C24_FactoryOnlyForAbsent ==
    [][(/\ res'.op \in ReadOps
        /\ default_factory # "None"
        /\ res'.key \in DOMAIN mapping
        /\ res'.op = "getattr" => ValidName(cls, res'.key)) =>
          /\ res'.status = "ok"
          /\ res'.calls = <<>>
          /\ mapping' = mapping
          /\ res'.value \in {mapping[res'.key], BuildOf(Self, mapping[res'.key])}]_vars

\* C25: on a mutable wrapper, with or without a default factory, pop(k, d)
\* of an absent key returns d and leaves the backing mapping as it was,
\* pop(k) of an absent key raises KeyError and leaves it as it was, and
\* setdefault(k, d) of an absent key stores d at k and returns d.
C25_CallerDefault ==
    [][/\ (res'.op = "pop" /\ res'.key \notin DOMAIN mapping) =>
             /\ mapping' = mapping
             /\ IF res'.arg = Marker
                THEN res'.status = "KeyError"
                ELSE res'.status = "ok" /\ res'.value = res'.arg
       /\ (res'.op = "setdefault" /\ res'.key \notin DOMAIN mapping) =>
             /\ res'.status = "ok"
             /\ res'.value = res'.arg
             /\ mapping' = Put(mapping, res'.key, res'.arg)]_vars

RECURSIVE CarriesConfig(_, _)

\* Every wrapper in the value v that a read of self returned, and every
\* wrapper that attribute access to one of them returns in turn, has the
\* class and the configuration of self.
CarriesConfig(self, v) ==
    IF v.tag = "wrapper"
    THEN LET x == AsSelf(v) IN
         /\ x.cls = self.cls
         /\ x.recursive = self.recursive
         /\ x.sequence_type = self.sequence_type
         /\ x.default_factory = self.default_factory
         /\ x.pass_key = self.pass_key
         /\ \A k \in DOMAIN v.mapping :
               ValidName(self.cls, k) => CarriesConfig(self, DotAccess(x, k).value)
    ELSE IF v.tag \in {"list", "tuple"}
    THEN \A i \in 1..Len(v.elems) : CarriesConfig(self, v.elems[i])
    ELSE TRUE

\* C26: the wrappers that attribute access and call access return for a
\* nested mapping, directly or inside a sequence, carry the configuration of
\* the instance at every depth: its recursive flag or sequence container,
\* its default factory and its pass_key.
C26_NestedConfiguration ==
    (res.op \in {"getattr", "call"} /\ res.status = "ok") =>
        CarriesConfig(Self, res.value)

\* The nested key that the call record names.
NestedKeyOf(r) == CHOOSE j \in NestedKeys : KeyValue(j) = r.arg

C28_SharedBacking ==
    (res.op = "shared_change" /\ res.status = "ok" /\ ValidName(cls, res.key)) =>
        LET one   == IF res.arg = StrV("copy") THEN AsSelf(res.value) ELSE Self
            other == IF res.arg = StrV("copy") THEN Self ELSE AsSelf(res.value)
        IN  /\ ItemAccess(other, res.key).status = ItemAccess(one, res.key).status
            /\ ItemAccess(other, res.key).value = ItemAccess(one, res.key).value
            /\ DotAccess(other, res.key).status = DotAccess(one, res.key).status
            /\ DotAccess(other, res.key).value = DotAccess(one, res.key).value

RECURSIVE Compatible(_)
\* No key that more than one of the mappings ms holds has a mapping in one
\* of them and a non-mapping in another, at any depth.
Compatible(ms) ==
    \A k \in UNION {DOMAIN ms[i] : i \in DOMAIN ms} :
        LET holders == {i \in DOMAIN ms : k \in DOMAIN ms[i]}
        IN  \/ Cardinality(holders) <= 1
            \/ \A i \in holders : ~IsMapping(ms[i][k])
            \/ /\ \A i \in holders : IsMapping(ms[i][k])
               /\ Compatible([i \in holders |-> MappingItems(ms[i][k])])

\* The three operands of the merge of three that res records.
Operands(r) == [i \in 1..3 |-> r.arg.elems[i].items]

\* C29: for mappings a, b, c in which every key that more than one of them
\* holds has mappings in all of them or non-mappings in all of them, at every
\* depth, merge(a, merge(b, c)) equals merge(merge(a, b), c).
C29_MergeAssociative ==
    (res.op = "merge_three" /\ Compatible(Operands(res))) =>
        Plain(res.value.elems[1]) = Plain(res.value.elems[2])

\* Three operands that hold a mapping under foo, with different values under
\* its keys, and two of which hold different scalars under get: the merge
\* recurses under foo both ways, and both groupings give the same mapping.
C29_Witness ==
    /\ res.op = "merge_three"
    /\ Compatible(Operands(res))
    /\ Operands(res)[1] = "foo" :> Dict1
    /\ Operands(res)[2] = ("foo" :> DictV(("get" :> Int2) @@ ("foo" :> Int9)))
                             @@ ("get" :> Int1)
    /\ Operands(res)[3] = ("foo" :> Dict1) @@ ("get" :> Int9)
    /\ Plain(res.value.elems[1]) = Plain(res.value.elems[2])
    /\ Plain(res.value.elems[1]) =
          DictV(("foo" :> DictV(("foo" :> Int1) @@ ("get" :> Int2)))
                  @@ ("get" :> Int9))

\* C30: constructing a wrapper from a mapping object, with or without keyword
\* items, leaves the mapping object that was passed in with the keys and
\* values it had, and the new wrapper holds the keyword value under every
\* keyword's key.
C30_CallerUntouched ==
    (res.op = "construct" /\ res.arg.elems[1].tag = "dict") =>
        /\ res.value.elems[1] = res.arg.elems[1]
        /\ \A k \in DOMAIN res.arg.elems[2].items :
              /\ k \in DOMAIN res.value.elems[2].mapping
              /\ res.value.elems[2].mapping[k] = res.arg.elems[2].items[k]

====
